---- MODULE Spec2Model ----
(***************************************************************************)
(* PiRate: the serial relay SerialConsole.stdio()                          *)
(* (src/src/pirate/lib/serial_console.py) as a state machine.              *)
(*                                                                         *)
(* One behaviour is one SerialConsole object: its construction, one call   *)
(* of stdio() and what may still happen in the process after the call has  *)
(* ended (an interrupt).  Bytes are integers 0..255, byte strings are      *)
(* sequences of bytes.                                                     *)
(*                                                                         *)
(* The model records calls: os_write_calls and ser_write_calls hold the    *)
(* argument of every write the program issued on an open stream, in        *)
(* order, as the mocks of tests/test_serial_console.py do.  A call may     *)
(* raise; an exception raised inside the loop unwinds through the finally  *)
(* block and leaves stdio().                                               *)
(*                                                                         *)
(* The second part is the HID report encoder Keyboard                      *)
(* (src/pirate/lib/keyboard.py): one Keyboard object and its calls of      *)
(* send().  kb_events and kb_log_calls hold what the current call of       *)
(* send() has done so far.  The two programs share nothing; each           *)
(* specification runs one of them and leaves the other as constructed.     *)
(***************************************************************************)
EXTENDS Integers, Sequences, FiniteSets

\* ------------------------------------------------------------------ bounds

\* Environment events of one session: reads (serial and local) plus interrupts.
MaxEvents == 3

\* ------------------------------------------------------------- byte strings

ETX == <<3>>            \* b"\x03", Ctrl-C
EOT == <<4>>            \* b"\x04", Ctrl-D
GS == 29                \* 0x1D, Ctrl-]
CRLF == <<13, 10>>      \* b"\r\n"

\* b"__PIRATE_DONE__"
DONE_MARKER == <<95, 95, 80, 73, 82, 65, 84, 69, 95, 68, 79, 78, 69, 95, 95>>

\* The slack of the detection buffer beyond the marker, and the read size.
BufSlack == 1024
ReadSize == 4096

max_buf == Len(DONE_MARKER) + BufSlack

\* bytes `in`: m occurs in b as a contiguous subsequence.
Contains(b, m) ==
    \E i \in 0..(Len(b) - Len(m)) : \A j \in 1..Len(m) : b[i + j] = m[j]

\* byte `in` bytes
HasByte(b, x) == \E i \in 1..Len(b) : b[i] = x

\* A detection buffer that holds the last read only.
ExtendBuf_LastReadOnly(b, d) == d

\* A detection buffer that drops the newest bytes when it is full.
ExtendBuf_KeepsOldest(b, d) ==
    LET e == b \o d
    IN IF Len(e) > max_buf THEN SubSeq(e, 1, max_buf) ELSE e

\* buf.extend(data); if len(buf) > max_buf: del buf[: len(buf) - max_buf]
ExtendBuf(b, d) ==
    LET e == b \o d
    IN IF Len(e) > max_buf THEN SubSeq(e, Len(e) - max_buf + 1, Len(e)) ELSE e

\* --------------------------------------------------------------- inputs

Prefix(k) == SubSeq(DONE_MARKER, 1, k)
Suffix(k) == SubSeq(DONE_MARKER, k + 1, Len(DONE_MARKER))

Hi == <<104, 105, 10>>  \* b"hi\n"

\* What one ser.read(4096) may return: nothing, a line of ordinary bytes,
\* the marker, the marker inside other bytes, and the marker's two halves
\* b"__PIRATE_" and b"DONE__".
SerChunks ==
    { <<>>, Hi, DONE_MARKER, Hi \o DONE_MARKER \o CRLF, Prefix(9), Suffix(9) }

\* Every way of cutting the marker in two, for the runs about split markers.
SplitChunks ==
    { <<>>, Hi, DONE_MARKER }
        \cup { Prefix(k) : k \in 1..(Len(DONE_MARKER) - 1) }
        \cup { Suffix(k) : k \in 1..(Len(DONE_MARKER) - 1) }

\* n bytes b"x": output of the remote that has nothing to do with the marker.
Filler(n) == [i \in 1..n |-> 120]

\* The marker with n bytes of other output behind it, in one read.
MarkerThen(n) == DONE_MARKER \o Filler(n)

\* Reads that fill the detection buffer: as many bytes as the slack, one
\* read longer than the whole buffer, the marker with as many bytes behind it
\* as the slack and with one more, and short reads around them.
LongChunks ==
    { <<>>, Hi, DONE_MARKER, Filler(BufSlack), Filler(max_buf + 1),
      MarkerThen(BufSlack), MarkerThen(BufSlack + 1) }

Ls == <<108, 115, 10>>  \* b"ls\n"

\* What one os.read(fd_in, 4096) may return: EOF, ordinary bytes, Ctrl-D
\* alone and among other bytes, Ctrl-] alone, first, last and in the middle.
InChunks ==
    { <<>>, Ls, EOT, <<4, 97>>, <<GS>>, <<GS, 97>>, <<97, GS>>, <<97, GS, 4>> }

\* The local terminal's attributes before the call.
TtyModes == { "cooked", "raw" }

\* signal.getsignal(SIGINT) before the call: None stands for a handler that
\* was not installed from Python.
PrevHandlers == { "None", "default_int_handler" }

\* self.on_ready: no callback, one that returns, one that raises.
Callbacks == { "None", "returns", "raises" }

VARIABLES
    \* arguments of __init__ and stdio
    disable_serial, on_ready, ser_arg, manage_tty, install_sigint_handler,
    \* the process and its devices
    tty_attrs, sigint_handler, ser_state,
    \* locals of stdio
    pc, created_ser, ready_fired, old_tty, prev_sig, buf, r, data,
    \* what happened
    tty_at_entry, sigint_at_entry, exit, exc, ser_reads, in_reads, sigints,
    sigint_raised, os_write_calls, ser_write_calls, tcsetattr_calls,
    serial_ctor_calls, ser_close_calls, on_ready_calls, debug_calls,
    \* the Keyboard object and one send() call
    keymap, disable_keyboard, log_keystrokes, kb_pc, text, keystrokes, kb_i,
    keystroke_count, kb_error, kb_events, kb_log_calls,
    wpm, device_path, wpm_arg, delay, sends, started_before, tokens,
    \* the Config class: _data, whether load() was ever called, the last
    \* call, _defaults
    cfg_data, cfg_load_called, cfg_last, cfg_defaults,
    \* the last run of the execute command: the payload it named, what the
    \* payload's execute() does, the calls the command made, how it ended
    cli_payload, cli_execute, cli_calls, cli_result

args == <<disable_serial, on_ready, ser_arg, manage_tty, install_sigint_handler>>
world == <<tty_attrs, sigint_handler, ser_state>>
locals == <<pc, created_ser, ready_fired, old_tty, prev_sig, buf, r, data>>
hist == <<tty_at_entry, sigint_at_entry, exit, exc, ser_reads, in_reads, sigints, sigint_raised,
          os_write_calls, ser_write_calls,
          tcsetattr_calls, serial_ctor_calls, ser_close_calls, on_ready_calls,
          debug_calls>>
kb == <<keymap, disable_keyboard, log_keystrokes, kb_pc, text, keystrokes, kb_i,
        keystroke_count, kb_error, kb_events, kb_log_calls,
        wpm, device_path, wpm_arg, delay, sends, started_before, tokens>>
cfg == <<cfg_data, cfg_load_called, cfg_last, cfg_defaults>>
cli == <<cli_payload, cli_execute, cli_calls, cli_result>>
vars == <<args, world, locals, hist, kb, cfg, cli>>

Events == Len(ser_reads) + Len(in_reads) + sigints


\* ===================================================================== Keyboard
\* The HID report encoder Keyboard (src/pirate/lib/keyboard.py).  A character
\* is a one-character string; a text, a key name and a keystroke group are
\* sequences of characters; a report is a sequence of 8 bytes, report[i + 1]
\* being byte i.

\* "{KEY:" of the pattern \{KEY:(.*?)\}
KEY_OPEN == <<"{", "K", "E", "Y", ":">>

RECURSIVE Split(_, _)
\* str.split(sep): the pieces between the separators, empty pieces included.
Split(s, sep) ==
    IF \E i \in 1..Len(s) : s[i] = sep
    THEN LET i == CHOOSE i \in 1..Len(s) : s[i] = sep /\ \A j \in 1..(i - 1) : s[j] # sep
         IN <<SubSeq(s, 1, i - 1)>> \o Split(SubSeq(s, i + 1, Len(s)), sep)
    ELSE <<s>>

\* One hexadecimal digit.
HexDigit(c) ==
    CASE c = "0" -> 0 [] c = "1" -> 1 [] c = "2" -> 2 [] c = "3" -> 3
      [] c = "4" -> 4 [] c = "5" -> 5 [] c = "6" -> 6 [] c = "7" -> 7
      [] c = "8" -> 8 [] c = "9" -> 9
      [] c \in {"A", "a"} -> 10 [] c \in {"B", "b"} -> 11 [] c \in {"C", "c"} -> 12
      [] c \in {"D", "d"} -> 13 [] c \in {"E", "e"} -> 14 [] c \in {"F", "f"} -> 15

RECURSIVE Int16(_)
\* int(h, 16)
Int16(h) ==
    IF h = <<>> THEN 0
    ELSE 16 * Int16(SubSeq(h, 1, Len(h) - 1)) + HexDigit(h[Len(h)])

\* A report whose byte 0 holds the modifier of the last key only.
BitOr_KeepsLast(a, b) == b

RECURSIVE BitOr(_, _)
\* a | b
BitOr(a, b) ==
    IF a = 0 THEN b
    ELSE IF b = 0 THEN a
    ELSE 2 * BitOr(a \div 2, b \div 2) + (IF a % 2 = 1 \/ b % 2 = 1 THEN 1 ELSE 0)

\* [0x00] * 8
ZeroFrame == [i \in 1..8 |-> 0]

\* A slot per key: the n-th key of the group takes byte 1 + n, whatever
\* its keycode.
EmptySlot_PerKey(report, n) == IF n < 6 THEN n + 3 ELSE 0

\* for i in range(2, 8): if report[i] == 0x00: the first byte among 2..7
\* that holds 0, as an index of the sequence; 0 when there is none (the
\* for's else).  n, the number of keys of the group already placed, plays
\* no part.
EmptySlot(report, n) ==
    IF \E i \in 3..8 : report[i] = 0
    THEN CHOOSE i \in 3..8 : report[i] = 0 /\ \A j \in 3..(i - 1) : report[j] # 0
    ELSE 0

\* No exception; an exception is its class, the key its message names (for
\* KeymapError) and the device path its message names (for the two device
\* errors).
NoError == [kind |-> "none", key |-> <<>>, path |-> ""]

\* An unknown-key error that does not say which key.
UnknownKey_Unnamed(key) == [kind |-> "KeymapError", key |-> <<>>, path |-> ""]

\* raise KeymapError(f"Key '{key}' not found in keymap.")
UnknownKey(key) == [kind |-> "KeymapError", key |-> key, path |-> ""]

RECURSIVE BuildReport(_, _, _, _)
\* The loop `for key in keys:` of _process_keystroke over the keys left, n
\* of them done: the report built, or the error that ended the loop.
BuildReport(report, keys, n, km) ==
    IF keys = <<>> THEN [report |-> report, error |-> NoError]
    ELSE LET key == Head(keys)
         IN IF key \notin DOMAIN km
            THEN [report |-> report, error |-> UnknownKey(key)]
            ELSE LET modifier == km[key][1]
                     keycode == km[key][2]
                     withmod == [report EXCEPT ![1] = BitOr(@, Int16(modifier))]
                     i == EmptySlot(withmod, n)
                 IN IF i = 0
                    THEN [report |-> withmod,
                          error |-> [kind |-> "HIDReportError", key |-> <<>>, path |-> ""]]
                    ELSE BuildReport([withmod EXCEPT ![i] = Int16(keycode)],
                                     Tail(keys), n + 1, km)

\* keys = keystroke.split("+")
KeysOf(keystroke) == Split(keystroke, "+")

\* report = [0x00] * 8; keys = keystroke.split("+"); for key in keys: ...
Encode(keystroke, km) == BuildReport(ZeroFrame, KeysOf(keystroke), 0, km)

\* list(text): every character a keystroke of its own.
Singles(s) == [k \in 1..Len(s) |-> <<s[k]>>]

\* The pattern matches at i and its group ends before j: "{KEY:" at i, "}"
\* at j, and between them no "}" (.*? is lazy) and no newline (. does not
\* match it).
Closes(txt, i, j) ==
    /\ j \in (i + 5)..Len(txt)
    /\ txt[j] = "}"
    /\ \A k \in (i + 5)..(j - 1) : txt[k] \notin {"}", "\n"}

Starts(txt, i) ==
    /\ i + 4 <= Len(txt)
    /\ SubSeq(txt, i, i + 4) = KEY_OPEN
    /\ \E j \in 1..Len(txt) : Closes(txt, i, j)

RECURSIVE Keystrokes(_, _)
\* The while loop of send() from position pos on: the keystroke groups of
\* the text, the characters outside escapes one by one and every escape as
\* one group with its spaces removed.
Keystrokes(txt, pos) ==
    IF pos > Len(txt) THEN <<>>
    ELSE IF \E i \in pos..Len(txt) : Starts(txt, i)
    THEN LET i == CHOOSE i \in pos..Len(txt) :
                      Starts(txt, i) /\ \A h \in pos..(i - 1) : ~Starts(txt, h)
             j == CHOOSE j \in 1..Len(txt) : Closes(txt, i, j)
             escaped_key == SelectSeq(SubSeq(txt, i + 5, j - 1), LAMBDA c : c # " ")
         IN Singles(SubSeq(txt, pos, i - 1)) \o <<escaped_key>> \o Keystrokes(txt, j + 1)
    ELSE Singles(SubSeq(txt, pos, Len(txt)))

\* The decimal digits and the uppercase hexadecimal digits, in order.
DigitChars == <<"0", "1", "2", "3", "4", "5", "6", "7", "8", "9">>
HexChars == DigitChars \o <<"A", "B", "C", "D", "E", "F">>

\* ------------------------------------------------------------------ pacing

\* A clamp that has no lower end.
Clamp_UpperOnly(w) == IF w > 1000 THEN 1000 ELSE w

\* if wpm < 10: wpm = 10 elif wpm > 1000: wpm = 1000
Clamp(w) == IF w < 10 THEN 10 ELSE IF w > 1000 THEN 1000 ELSE w

RECURSIVE Gcd(_, _)
Gcd(a, b) == IF b = 0 THEN a ELSE Gcd(b, a % b)

Abs(x) == IF x < 0 THEN 0 - x ELSE x

\* n / d for n > 0 as a fraction in lowest terms, <<numerator, denominator>>,
\* the denominator positive; the denominator 0 stands for ZeroDivisionError.
Fraction(n, d) ==
    LET g == Gcd(n, Abs(d))
    IN IF d < 0 THEN <<0 - (n \div g), Abs(d) \div g>> ELSE <<n \div g, d \div g>>

\* _wpm_to_delay: chars_per_word = 5; delay = 60 / (wpm * chars_per_word),
\* in seconds, as an exact fraction.
WpmToDelay(w) == Fraction(60, Clamp(w) * 5)

\* self.wpm if wpm is None else wpm; the argument is <<>> for None and <<w>>
\* for the integer w.
EffectiveWpm(own, arg) == IF arg = <<>> THEN own ELSE arg[1]

\* ------------------------------------------------------ keymaps and texts

\* The longest keystroke group of the runs, in keys.
MaxKeys == 7

KeyA == <<"a">>
KeyR == <<"r">>
KeyShiftB == <<"B">>
KeyWin == <<"W", "I", "N">>
KeyPlus == <<"+">>

\* The keymap of the tests (a, r and the modifier-only WIN) with two shifted
\* keys of the us layout: name -> [modifier_hex, keycode_hex].
KeymapTest ==
    [k \in {KeyA, KeyR, KeyShiftB, KeyWin, KeyPlus} |->
        CASE k = KeyA -> << <<"0", "0">>, <<"0", "4">> >>
          [] k = KeyR -> << <<"0", "0">>, <<"1", "5">> >>
          [] k = KeyShiftB -> << <<"0", "2">>, <<"0", "5">> >>
          [] k = KeyWin -> << <<"0", "8">>, <<"0", "0">> >>
          [] k = KeyPlus -> << <<"0", "2">>, <<"2", "E">> >>]

\* The keys of the combos of the runs: two keys with different keycodes and
\* modifiers, and a modifier-only key.
ComboKeys == {KeyA, KeyShiftB, KeyWin}

\* Every list of 1..n combo keys, a key any number of times.
KeyLists(n) == UNION { [1..m -> ComboKeys] : m \in 1..n }

RECURSIVE JoinKeys(_)
\* "+".join(names)
JoinKeys(names) ==
    IF Len(names) = 1 THEN names[1]
    ELSE names[1] \o <<"+">> \o JoinKeys(Tail(names))

\* "{KEY:" + inner + "}"
Escape(inner) == KEY_OPEN \o inner \o <<"}">>

\* The texts of one keystroke group: a key of one character as a plain
\* character, a key or a combo in an escape, {KEY:WIN+r} of the tests and
\* the same with spaces.
GroupTexts ==
    { k \in DOMAIN KeymapTest : Len(k) = 1 }
        \cup { Escape(k) : k \in DOMAIN KeymapTest }
        \cup { Escape(JoinKeys(l)) : l \in KeyLists(MaxKeys) }
        \cup { Escape(KeyWin \o <<"+">> \o KeyR),
               Escape(KeyWin \o <<" ", "+", " ">> \o KeyR) }

\* The keymap of test_mixed_plaintext_and_hotkey (a, b, c, r and WIN) with
\* the "+" of the us layout.
KeyB == <<"b">>
KeyC == <<"c">>
KeymapMixed ==
    [k \in {KeyA, KeyB, KeyC, KeyR, KeyWin, KeyPlus} |->
        CASE k = KeyA -> << <<"0", "0">>, <<"0", "4">> >>
          [] k = KeyB -> << <<"0", "0">>, <<"0", "5">> >>
          [] k = KeyC -> << <<"0", "0">>, <<"0", "6">> >>
          [] k = KeyR -> << <<"0", "0">>, <<"1", "5">> >>
          [] k = KeyWin -> << <<"0", "8">>, <<"0", "0">> >>
          [] k = KeyPlus -> << <<"0", "2">>, <<"2", "E">> >>]

\* A key that no keymap of the runs has.
KeyZ == <<"z">>

\* The longest text of the runs, in tokens: a token is one character outside
\* the escapes or one escape.
MaxTokens == 3

\* The combos of the escapes of the texts: the hotkey of the tests, plain
\* and with spaces, an unknown key alone, after a known key and after a
\* modifier-only key and six keys, and seven keys with keycodes.
SevenKeys == JoinKeys([i \in 1..7 |-> KeyA])
Combos ==
    { KeyWin \o <<"+">> \o KeyR,
      KeyWin \o <<" ", "+", " ">> \o KeyR,
      KeyZ,
      KeyA \o <<"+">> \o KeyZ,
      SevenKeys,
      SevenKeys \o <<"+">> \o KeyZ,
      KeyWin \o <<"+">> \o JoinKeys([i \in 1..6 |-> KeyA]) \o <<"+">> \o KeyZ }

\* The tokens of the texts: the characters a, b, "+" and the unknown z, and
\* an escape for every combo.
PlainTokens == {KeyA, KeyB, KeyPlus, KeyZ}
Tokens == PlainTokens \cup { Escape(c) : c \in Combos }

\* Every list of 1..n tokens.
TokenLists(n) == UNION { [1..m -> Tokens] : m \in 1..n }

\* The text of test_mixed_plaintext_and_hotkey: "ab{KEY:WIN+r}c"
MixedTokens == <<KeyA, KeyB, Escape(KeyWin \o <<"+">> \o KeyR), KeyC>>

RECURSIVE Render(_)
\* The text a list of tokens spells.
Render(toks) == IF toks = <<>> THEN <<>> ELSE Head(toks) \o Render(Tail(toks))

\* A Keyboard object after __init__, before any send(): its keymap and its
\* two flags drawn from the given sets.
KeyboardWith(keymaps, disables, logs) ==
    /\ keymap \in keymaps
    /\ disable_keyboard \in disables
    /\ log_keystrokes \in logs
    /\ kb_pc = "idle"
    /\ text = <<>>
    /\ keystrokes = <<>>
    /\ kb_i = 0
    /\ keystroke_count = 0
    /\ kb_error = NoError
    /\ kb_events = <<>>
    /\ kb_log_calls = <<>>
    /\ wpm_arg = <<>>
    /\ delay = <<>>
    /\ sends = 0
    /\ started_before = 0
    /\ tokens = <<>>

\* Config.get("keyboard", "wpm", 400) and Config.get("keyboard", "path", "/dev/hidg0")
DefaultWpm == 400
DefaultPath == "/dev/hidg0"

\* The typing speed and the device path of a Keyboard built without them.
KeyboardDefaults == wpm = DefaultWpm /\ device_path = DefaultPath

\* The Keyboard of the runs of the relay: constructed and never used.
KeyboardUnused == KeyboardWith({KeymapTest}, {FALSE}, {FALSE}) /\ KeyboardDefaults

\* ------------------------------------------------------------------ Config

\* The typed values of the configuration: <<type, value>>, a string as the
\* sequence of its characters, a log level by its name, None.
StrV(s) == <<"str", s>>
IntV(n) == <<"int", n>>
BoolV(b) == <<"bool", b>>
Level(name) == <<"level", name>>
None == <<"none", <<>> >>

\* _defaults
Defaults ==
    [keyboard |-> [layout |-> StrV(<<"u", "s">>),
                   wpm |-> IntV(200),
                   path |-> StrV(<<"/", "d", "e", "v", "/", "h", "i", "d", "g", "0">>),
                   log_keystrokes |-> BoolV(FALSE)],
     serial |-> [path |-> StrV(<<"/", "d", "e", "v", "/", "t", "t", "y", "G", "S", "0">>),
                 baud |-> IntV(115200),
                 newline |-> StrV(<<"c", "r", "l", "f">>)],
     dev |-> [stack_trace_errors |-> BoolV(FALSE),
              log_level |-> StrV(<<"i", "n", "f", "o">>),
              disable_keyboard |-> BoolV(FALSE),
              disable_serial |-> BoolV(FALSE)]]

\* The letters, for str.lower().
UpperChars == <<"A", "B", "C", "D", "E", "F", "G", "H", "I", "J", "K", "L", "M", "N", "O", "P", "Q", "R", "S", "T", "U", "V", "W", "X", "Y", "Z">>
LowerChars == <<"a", "b", "c", "d", "e", "f", "g", "h", "i", "j", "k", "l", "m", "n", "o", "p", "q", "r", "s", "t", "u", "v", "w", "x", "y", "z">>

\* raw.lower()
LowerOf(ch) ==
    IF \E i \in 1..26 : UpperChars[i] = ch
    THEN LowerChars[CHOOSE i \in 1..26 : UpperChars[i] = ch]
    ELSE ch
Lower(s) == [i \in 1..Len(s) |-> LowerOf(s[i])]

\* int(raw) accepts the string: an optional sign and decimal digits. (The
\* values of the runs have no underscores and no inner spaces.)
IsIntLiteral(raw) ==
    LET digits == IF raw # <<>> /\ raw[1] \in {"+", "-"} THEN Tail(raw) ELSE raw
    IN /\ digits # <<>>
       /\ \A i \in 1..Len(digits) : \E d \in 1..10 : DigitChars[d] = digits[i]

RECURSIVE DecimalValue(_)
DecimalValue(digits) ==
    IF digits = <<>> THEN 0
    ELSE 10 * DecimalValue(SubSeq(digits, 1, Len(digits) - 1))
           + ((CHOOSE d \in 1..10 : DigitChars[d] = digits[Len(digits)]) - 1)

\* int(raw) of a string it accepts.
IntOf(raw) ==
    IF raw[1] = "-" THEN 0 - DecimalValue(Tail(raw))
    ELSE IF raw[1] = "+" THEN DecimalValue(Tail(raw))
    ELSE DecimalValue(raw)

\* _coerce(default_value, raw): the value, or the ValueError of int(raw).
\* No default of the table is None.
Coerce(default_value, raw) ==
    IF raw = <<>> THEN [raised |-> "none", value |-> default_value]
    ELSE IF default_value[1] = "bool"
         THEN [raised |-> "none",
               value |-> BoolV(Lower(raw) \in {<<"1">>, <<"t", "r", "u", "e">>, <<"y", "e", "s">>, <<"o", "n">>})]
    ELSE IF default_value[1] = "int"
         THEN IF IsIntLiteral(raw)
              THEN [raised |-> "none", value |-> IntV(IntOf(raw))]
              ELSE [raised |-> "ValueError", value |-> None]
    ELSE [raised |-> "none", value |-> StrV(raw)]

\* _str_to_level(level): the level, or the ValueError of an unknown name.
StrToLevel(level) ==
    IF level = StrV(<<"s", "u", "c", "c", "e", "s", "s">>) THEN [raised |-> "none", value |-> Level("SUCCESS")]
    ELSE IF level = StrV(<<"i", "n", "f", "o">>) THEN [raised |-> "none", value |-> Level("INFO")]
    ELSE IF level = StrV(<<"w", "a", "r", "n", "i", "n", "g">>) THEN [raised |-> "none", value |-> Level("WARNING")]
    ELSE IF level = StrV(<<"e", "r", "r", "o", "r">>) THEN [raised |-> "none", value |-> Level("ERROR")]
    ELSE IF level = StrV(<<"d", "e", "b", "u", "g">>) THEN [raised |-> "none", value |-> Level("DEBUG")]
    ELSE [raised |-> "ValueError", value |-> None]

\* _apply_normalizers(data): a copy of the data with dev.log_level turned
\* into a level, or the ValueError of the normalizer.
ApplyNormalizers(d) ==
    IF "dev" \in DOMAIN d /\ "log_level" \in DOMAIN d["dev"]
    THEN LET lv == StrToLevel(d["dev"]["log_level"])
         IN IF lv.raised # "none"
            THEN [raised |-> lv.raised, sections |-> d]
            ELSE [raised |-> "none",
                  sections |-> [d EXCEPT !["dev"]["log_level"] = lv.value]]
    ELSE [raised |-> "none", sections |-> d]

\* What the parser holds of a file after cp.read(): the sections, the
\* options of each and their raw strings; or the error cp.read() raises.
NoSections == [s \in {} |-> [k \in {} |-> <<>>]]

\* The file of the tests.
FileTest ==
    [error |-> "none",
     sections |-> [keyboard |-> [wpm |-> <<"3", "0", "0">>, log_keystrokes |-> <<"f", "a", "l", "s", "e">>],
                   serial |-> [baud |-> <<"9", "6", "0", "0">>, newline |-> <<"l", "f">>],
                   dev |-> [log_level |-> <<"d", "e", "b", "u", "g">>, stack_trace_errors |-> <<"t", "r", "u", "e">>,
                            disable_keyboard |-> <<"f", "a", "l", "s", "e">>, disable_serial |-> <<"t", "r", "u", "e">>]]]

\* An empty file.
FileEmpty == [error |-> "none", sections |-> NoSections]

\* One known section with a blank value, a flag in capitals and an option
\* the table does not have, and a section the table does not have.
FilePartial ==
    [error |-> "none",
     sections |-> [keyboard |-> [wpm |-> <<>>, log_keystrokes |-> <<"Y", "e", "s">>, colour |-> <<"r", "e", "d">>],
                   extra |-> [wpm |-> <<"7">>]]]

\* A word for an integer key, and a log level that does not exist.
FileBadInt == [error |-> "none", sections |-> [keyboard |-> [wpm |-> <<"f", "a", "s", "t">>]]]
FileBadLevel == [error |-> "none", sections |-> [dev |-> [log_level |-> <<"l", "o", "u", "d">>]]]

\* Files the parser refuses.
FileNoHeader == [error |-> "MissingSectionHeaderError", sections |-> NoSections]
FileTwiceSection == [error |-> "DuplicateSectionError", sections |-> NoSections]
FileTwiceOption == [error |-> "DuplicateOptionError", sections |-> NoSections]

Files == {FileTest, FileEmpty, FilePartial, FileBadInt, FileBadLevel,
          FileNoHeader, FileTwiceSection, FileTwiceOption}

\* What `filepath or cls._resolve_config_path()` is: no path at all, a path
\* that does not exist, a file whose name does not end in ".cfg", a file
\* whose name does.
Targets == {"none", "missing", "not_cfg", "cfg"}

\* resolved[key] for every key of the section's defaults: the coerced
\* option of the file or the default.
Resolved(section, file) ==
    [key \in DOMAIN cfg_defaults[section] |->
        IF key \in DOMAIN file.sections[section]
        THEN Coerce(cfg_defaults[section][key], file.sections[section][key])
        ELSE [raised |-> "none", value |-> cfg_defaults[section][key]]]

\* data = cls._defaults.copy() with every section the file has replaced by
\* its resolved values; the ValueError of _coerce when a value raises it.
Merged(file) ==
    LET has == DOMAIN cfg_defaults \cap DOMAIN file.sections
    IN IF \E s \in has : \E key \in DOMAIN cfg_defaults[s] :
             Resolved(s, file)[key].raised # "none"
       THEN [raised |-> "ValueError", sections |-> cfg_defaults]
       ELSE [raised |-> "none",
             sections |-> [s \in DOMAIN cfg_defaults |->
                             IF s \in has
                             THEN [key \in DOMAIN cfg_defaults[s] |-> Resolved(s, file)[key].value]
                             ELSE cfg_defaults[s]]]

\* The defaults as load() stores them: cls._apply_normalizers(cls._defaults.copy())
FallBack(warning) ==
    LET n == ApplyNormalizers(cfg_defaults)
    IN [raised |-> n.raised, warning |-> warning, sections |-> n.sections]

\* load(filepath): what it raises, what it warns and what it stores.
LoadOutcome(target, file) ==
    IF target \in {"none", "missing"}
    THEN FallBack("No config file found. Loading defaults...")
    ELSE IF target = "not_cfg"
    THEN FallBack("Config path does not end with .cfg. Loading defaults...")
    ELSE IF file.error = "MissingSectionHeaderError"
    THEN FallBack("Invalid config file. Loading defaults...")
    ELSE IF file.error # "none"
    THEN [raised |-> file.error, warning |-> "", sections |-> cfg_defaults]
    ELSE LET m == Merged(file)
             n == ApplyNormalizers(m.sections)
         IN IF m.raised # "none"
            THEN [raised |-> m.raised, warning |-> "", sections |-> cfg_defaults]
            ELSE [raised |-> n.raised, warning |-> "", sections |-> n.sections]

\* _data = None
NotLoaded == [loaded |-> FALSE, sections |-> NoSections]

\* Nothing has been called yet.
NoCall ==
    [op |-> "none", target |-> "", file |-> FileEmpty,
     section |-> "", key |-> "", default |-> None,
     raised |-> "none", value |-> None, warning |-> ""]

\* The Config class as imported: nothing loaded, nothing called, the table
\* of the defaults as written.
ConfigInit ==
    /\ cfg_defaults = Defaults
    /\ cfg_data = NotLoaded
    /\ cfg_load_called = FALSE
    /\ cfg_last = NoCall

\* --------------------------------------------------------------------- CLI

\* No execute command has run yet.
CliInit ==
    /\ cli_payload = "none"
    /\ cli_execute = "none"
    /\ cli_calls = <<>>
    /\ cli_result = [rc |-> -1, raised |-> "none", stack_trace |-> FALSE]

\* A process that has loaded nothing and run nothing.
ProcessInit == ConfigInit /\ CliInit

\* ------------------------------------------------------------------ Init

\* The process before the SerialConsole is built: the arguments the caller
\* will pass, the terminal in some mode, some SIGINT disposition, and the
\* caller's own connection when it passes one through `ser`.  The terminal
\* and the SIGINT disposition vary only where stdio() is told to touch them.
RelayWith(cbs) ==
    /\ disable_serial \in BOOLEAN
    /\ on_ready \in cbs
    /\ ser_arg \in BOOLEAN
    /\ manage_tty \in BOOLEAN
    /\ install_sigint_handler \in BOOLEAN
    /\ tty_attrs \in (IF manage_tty THEN TtyModes ELSE {"cooked"})
    /\ sigint_handler \in (IF install_sigint_handler THEN PrevHandlers
                                                     ELSE {"default_int_handler"})
    /\ tty_at_entry = tty_attrs
    /\ sigint_at_entry = sigint_handler
    /\ ser_state = IF ser_arg THEN "open" ELSE "none"
    /\ pc = "new"
    /\ created_ser = FALSE
    /\ ready_fired = FALSE
    /\ old_tty = "None"
    /\ prev_sig = "None"
    /\ buf = <<>>
    /\ r = {}
    /\ data = <<>>
    /\ exit = "none"
    /\ exc = "none"
    /\ ser_reads = <<>>
    /\ in_reads = <<>>
    /\ sigints = 0
    /\ sigint_raised = 0
    /\ os_write_calls = <<>>
    /\ ser_write_calls = <<>>
    /\ tcsetattr_calls = <<>>
    /\ serial_ctor_calls = 0
    /\ ser_close_calls = <<>>
    /\ on_ready_calls = 0
    /\ debug_calls = 0

InitWith(cbs) == RelayWith(cbs) /\ KeyboardUnused /\ ProcessInit

Init == InitWith(Callbacks)

\* ------------------------------------------------------------ __init__

\* SerialConsole.__init__: a disabled relay logs a debug message here.
Construct ==
    /\ pc = "new"
    /\ pc' = "idle"
    /\ debug_calls' = IF disable_serial THEN debug_calls + 1 ELSE debug_calls
    /\ UNCHANGED <<disable_serial, on_ready, ser_arg, manage_tty,
                   install_sigint_handler, tty_attrs, sigint_handler, ser_state,
                   created_ser, ready_fired, old_tty, prev_sig, buf, r, data,
                   tty_at_entry, sigint_at_entry, exit, exc, ser_reads, in_reads,
                   sigints, sigint_raised, os_write_calls, ser_write_calls,
                   tcsetattr_calls, serial_ctor_calls, ser_close_calls,
                   on_ready_calls, keymap, disable_keyboard, log_keystrokes, kb_pc,
                   text, keystrokes, kb_i, keystroke_count, kb_error, kb_events,
                   kb_log_calls, wpm, device_path, wpm_arg, delay, sends,
                   started_before, tokens, cfg_data, cfg_load_called, cfg_last,
                   cfg_defaults, cli_payload, cli_execute, cli_calls, cli_result>>

\* ------------------------------------------------------- stdio: setup

\* A disabled stdio() that logs before it returns.
DisabledLog_Logs(n) == n + 1

\* The debug log across the early return of a disabled stdio(): the body of
\* `if self.disable_serial:` is the bare return.
DisabledLog(n) == n

\* if self.disable_serial: return
StdioDisabled ==
    /\ pc = "idle"
    /\ disable_serial
    /\ pc' = "closed"
    /\ debug_calls' = DisabledLog(debug_calls)
    /\ UNCHANGED <<disable_serial, on_ready, ser_arg, manage_tty,
                   install_sigint_handler, tty_attrs, sigint_handler, ser_state,
                   created_ser, ready_fired, old_tty, prev_sig, buf, r, data,
                   tty_at_entry, sigint_at_entry, exit, exc, ser_reads, in_reads,
                   sigints, sigint_raised, os_write_calls, ser_write_calls,
                   tcsetattr_calls, serial_ctor_calls, ser_close_calls,
                   on_ready_calls, keymap, disable_keyboard, log_keystrokes, kb_pc,
                   text, keystrokes, kb_i, keystroke_count, kb_error, kb_events,
                   kb_log_calls, wpm, device_path, wpm_arg, delay, sends,
                   started_before, tokens, cfg_data, cfg_load_called, cfg_last,
                   cfg_defaults, cli_payload, cli_execute, cli_calls, cli_result>>

\* A stdio() that takes every connection for its own.
CreatedSer_Always(given) == TRUE

\* created_ser = ser is None
CreatedSer(given) == ~given

\* created_ser = ser is None; ser = ser or Serial(...).  Serial() may raise
\* (the device cannot be opened): nothing has been set up, stdio() raises.
StdioOpen ==
    /\ pc = "idle"
    /\ ~disable_serial
    /\ created_ser' = CreatedSer(ser_arg)
    /\ \E ok \in BOOLEAN :
         IF ser_arg
         THEN /\ ok
              /\ pc' = "setup_tty"
              /\ UNCHANGED <<ser_state, serial_ctor_calls, exc>>
         ELSE /\ serial_ctor_calls' = serial_ctor_calls + 1
              /\ ser_state' = IF ok THEN "open" ELSE ser_state
              /\ pc' = IF ok THEN "setup_tty" ELSE "closed"
              /\ exc' = IF ok THEN exc ELSE "Serial"
    /\ UNCHANGED <<disable_serial, on_ready, ser_arg, manage_tty,
                   install_sigint_handler, tty_attrs, sigint_handler, ready_fired,
                   old_tty, prev_sig, buf, r, data, tty_at_entry, sigint_at_entry,
                   exit, ser_reads, in_reads, sigints, sigint_raised, os_write_calls,
                   ser_write_calls, tcsetattr_calls, ser_close_calls, on_ready_calls,
                   debug_calls, keymap, disable_keyboard, log_keystrokes, kb_pc,
                   text, keystrokes, kb_i, keystroke_count, kb_error, kb_events,
                   kb_log_calls, wpm, device_path, wpm_arg, delay, sends,
                   started_before, tokens, cfg_data, cfg_load_called, cfg_last,
                   cfg_defaults, cli_payload, cli_execute, cli_calls, cli_result>>

\* if manage_tty: old_tty = termios.tcgetattr(fd_in); tty.setcbreak(fd_in)
\* Either call may raise; the try block has not been entered, so stdio()
\* raises at once.
SetupTty ==
    /\ pc = "setup_tty"
    /\ IF manage_tty
       THEN \E res \in {"ok", "tcgetattr", "setcbreak"} :
              /\ old_tty' = IF res = "tcgetattr" THEN old_tty ELSE tty_attrs
              /\ tty_attrs' = IF res = "ok" THEN "cbreak" ELSE tty_attrs
              /\ pc' = IF res = "ok" THEN "setup_sig" ELSE "closed"
              /\ exc' = IF res = "ok" THEN exc ELSE res
       ELSE /\ pc' = "setup_sig"
            /\ UNCHANGED <<old_tty, tty_attrs, exc>>
    /\ UNCHANGED <<disable_serial, on_ready, ser_arg, manage_tty,
                   install_sigint_handler, sigint_handler, ser_state, created_ser,
                   ready_fired, prev_sig, buf, r, data, tty_at_entry,
                   sigint_at_entry, exit, ser_reads, in_reads, sigints,
                   sigint_raised, os_write_calls, ser_write_calls, tcsetattr_calls,
                   serial_ctor_calls, ser_close_calls, on_ready_calls, debug_calls,
                   keymap, disable_keyboard, log_keystrokes, kb_pc, text, keystrokes,
                   kb_i, keystroke_count, kb_error, kb_events, kb_log_calls, wpm,
                   device_path, wpm_arg, delay, sends, started_before, tokens,
                   cfg_data, cfg_load_called, cfg_last, cfg_defaults, cli_payload,
                   cli_execute, cli_calls, cli_result>>

\* if install_sigint_handler: prev_sig = signal.getsignal(SIGINT);
\* signal.signal(SIGINT, on_sigint).  signal.signal raises outside the main
\* thread; the try block has not been entered.
SetupSig ==
    /\ pc = "setup_sig"
    /\ IF install_sigint_handler
       THEN \E ok \in BOOLEAN :
              /\ prev_sig' = sigint_handler
              /\ sigint_handler' = IF ok THEN "on_sigint" ELSE sigint_handler
              /\ pc' = IF ok THEN "select" ELSE "closed"
              /\ exc' = IF ok THEN exc ELSE "signal"
       ELSE /\ pc' = "select"
            /\ UNCHANGED <<prev_sig, sigint_handler, exc>>
    /\ UNCHANGED <<disable_serial, on_ready, ser_arg, manage_tty,
                   install_sigint_handler, tty_attrs, ser_state, created_ser,
                   ready_fired, old_tty, buf, r, data, tty_at_entry, sigint_at_entry,
                   exit, ser_reads, in_reads, sigints, sigint_raised, os_write_calls,
                   ser_write_calls, tcsetattr_calls, serial_ctor_calls,
                   ser_close_calls, on_ready_calls, debug_calls, keymap,
                   disable_keyboard, log_keystrokes, kb_pc, text, keystrokes, kb_i,
                   keystroke_count, kb_error, kb_events, kb_log_calls, wpm,
                   device_path, wpm_arg, delay, sends, started_before, tokens,
                   cfg_data, cfg_load_called, cfg_last, cfg_defaults, cli_payload,
                   cli_execute, cli_calls, cli_result>>

\* ------------------------------------------------------- stdio: the loop

\* A serial side that ends its round: the loop waits again and leaves local
\* input to the next wake-up.
AfterSerial_WaitsAgain == "select"

\* Where the loop goes when the serial side of a wake-up is done:
\* `if fd_in in r:` and, failing that, the next `while True` round.
AfterSerial == IF "in" \in r THEN "in_read" ELSE "select"

\* r, _, _ = select.select([fd_in, ser.fileno()], [], []) and
\* `if ser.fileno() in r:`.  select blocks until a source is readable.
Select ==
    /\ pc = "select"
    /\ \/ /\ \E ready \in { {"in"}, {"ser"}, {"in", "ser"} } :
               /\ Events + Cardinality(ready) <= MaxEvents
               /\ r' = ready
               /\ pc' = IF "ser" \in ready THEN "ser_read" ELSE "in_read"
          /\ UNCHANGED <<exc, exit>>
       \/ /\ exc' = "select"
          /\ exit' = "exception"
          /\ pc' = "finally_tty"
          /\ r' = r
    /\ UNCHANGED <<disable_serial, on_ready, ser_arg, manage_tty,
                   install_sigint_handler, tty_attrs, sigint_handler, ser_state,
                   created_ser, ready_fired, old_tty, prev_sig, buf, data,
                   tty_at_entry, sigint_at_entry, ser_reads, in_reads, sigints,
                   sigint_raised, os_write_calls, ser_write_calls, tcsetattr_calls,
                   serial_ctor_calls, ser_close_calls, on_ready_calls, debug_calls,
                   keymap, disable_keyboard, log_keystrokes, kb_pc, text, keystrokes,
                   kb_i, keystroke_count, kb_error, kb_events, kb_log_calls, wpm,
                   device_path, wpm_arg, delay, sends, started_before, tokens,
                   cfg_data, cfg_load_called, cfg_last, cfg_defaults, cli_payload,
                   cli_execute, cli_calls, cli_result>>

\* data = ser.read(4096); if data:
SerRead(menu) ==
    /\ pc = "ser_read"
    /\ \/ /\ \E d \in menu :
               /\ Len(d) <= ReadSize
               /\ data' = d
               /\ ser_reads' = Append(ser_reads, d)
               /\ pc' = IF d # <<>> THEN "ready" ELSE AfterSerial
          /\ UNCHANGED <<exc, exit>>
       \/ /\ exc' = "ser.read"
          /\ exit' = "exception"
          /\ pc' = "finally_tty"
          /\ UNCHANGED <<data, ser_reads>>
    /\ UNCHANGED <<disable_serial, on_ready, ser_arg, manage_tty,
                   install_sigint_handler, tty_attrs, sigint_handler, ser_state,
                   created_ser, ready_fired, old_tty, prev_sig, buf, r, tty_at_entry,
                   sigint_at_entry, in_reads, sigints, sigint_raised, os_write_calls,
                   ser_write_calls, tcsetattr_calls, serial_ctor_calls,
                   ser_close_calls, on_ready_calls, debug_calls, keymap,
                   disable_keyboard, log_keystrokes, kb_pc, text, keystrokes, kb_i,
                   keystroke_count, kb_error, kb_events, kb_log_calls, wpm,
                   device_path, wpm_arg, delay, sends, started_before, tokens,
                   cfg_data, cfg_load_called, cfg_last, cfg_defaults, cli_payload,
                   cli_execute, cli_calls, cli_result>>

\* A relay without the ready-fired flag: the callback is due at every
\* non-empty serial read.
ReadyDue_NoFlag == on_ready # "None"

\* A relay that calls the callback behind the marker check: a read that
\* completes the marker breaks out of the loop first.
ReadyDue_BehindMarkerCheck ==
    ~ready_fired /\ on_ready # "None" /\ ~Contains(ExtendBuf(buf, data), DONE_MARKER)

\* if not ready_fired and self.on_ready:
ReadyDue == ~ready_fired /\ on_ready # "None"

\* A callback call under `with suppress(Exception)`.
CallbackAborts_Swallowed(cb) == FALSE

\* self.on_ready() stands alone in the loop body: an exception of the
\* callback leaves the loop.
CallbackAborts(cb) == cb = "raises"

\* if not ready_fired and self.on_ready: self.on_ready(); ready_fired = True
FireReady ==
    /\ pc = "ready"
    /\ IF ReadyDue
       THEN /\ on_ready_calls' = on_ready_calls + 1
            /\ IF ~CallbackAborts(on_ready)
               THEN /\ ready_fired' = TRUE
                    /\ pc' = "extend"
                    /\ UNCHANGED <<exc, exit>>
               ELSE /\ ready_fired' = ready_fired
                    /\ exc' = "on_ready"
                    /\ exit' = "exception"
                    /\ pc' = "finally_tty"
       ELSE /\ pc' = "extend"
            /\ UNCHANGED <<on_ready_calls, ready_fired, exc, exit>>
    /\ UNCHANGED <<disable_serial, on_ready, ser_arg, manage_tty,
                   install_sigint_handler, tty_attrs, sigint_handler, ser_state,
                   created_ser, old_tty, prev_sig, buf, r, data, tty_at_entry,
                   sigint_at_entry, ser_reads, in_reads, sigints, sigint_raised,
                   os_write_calls, ser_write_calls, tcsetattr_calls,
                   serial_ctor_calls, ser_close_calls, debug_calls, keymap,
                   disable_keyboard, log_keystrokes, kb_pc, text, keystrokes, kb_i,
                   keystroke_count, kb_error, kb_events, kb_log_calls, wpm,
                   device_path, wpm_arg, delay, sends, started_before, tokens,
                   cfg_data, cfg_load_called, cfg_last, cfg_defaults, cli_payload,
                   cli_execute, cli_calls, cli_result>>

\* buf.extend(data); if len(buf) > max_buf: del buf[: len(buf) - max_buf]
Extend ==
    /\ pc = "extend"
    /\ buf' = ExtendBuf(buf, data)
    /\ pc' = "os_write"
    /\ UNCHANGED <<disable_serial, on_ready, ser_arg, manage_tty,
                   install_sigint_handler, tty_attrs, sigint_handler, ser_state,
                   created_ser, ready_fired, old_tty, prev_sig, r, data,
                   tty_at_entry, sigint_at_entry, exit, exc, ser_reads, in_reads,
                   sigints, sigint_raised, os_write_calls, ser_write_calls,
                   tcsetattr_calls, serial_ctor_calls, ser_close_calls,
                   on_ready_calls, debug_calls, keymap, disable_keyboard,
                   log_keystrokes, kb_pc, text, keystrokes, kb_i, keystroke_count,
                   kb_error, kb_events, kb_log_calls, wpm, device_path, wpm_arg,
                   delay, sends, started_before, tokens, cfg_data, cfg_load_called,
                   cfg_last, cfg_defaults, cli_payload, cli_execute, cli_calls,
                   cli_result>>

\* What the relay hands to local output for a serial read.
OutBytes(d) == d

\* os.write(fd_out, data)
OsWrite ==
    /\ pc = "os_write"
    /\ os_write_calls' = Append(os_write_calls, <<"data", OutBytes(data)>>)
    /\ \/ /\ pc' = "marker_check"
          /\ UNCHANGED <<exc, exit>>
       \/ /\ exc' = "os.write"
          /\ exit' = "exception"
          /\ pc' = "finally_tty"
    /\ UNCHANGED <<disable_serial, on_ready, ser_arg, manage_tty,
                   install_sigint_handler, tty_attrs, sigint_handler, ser_state,
                   created_ser, ready_fired, old_tty, prev_sig, buf, r, data,
                   tty_at_entry, sigint_at_entry, ser_reads, in_reads, sigints,
                   sigint_raised, ser_write_calls, tcsetattr_calls,
                   serial_ctor_calls, ser_close_calls, on_ready_calls, debug_calls,
                   keymap, disable_keyboard, log_keystrokes, kb_pc, text, keystrokes,
                   kb_i, keystroke_count, kb_error, kb_events, kb_log_calls, wpm,
                   device_path, wpm_arg, delay, sends, started_before, tokens,
                   cfg_data, cfg_load_called, cfg_last, cfg_defaults, cli_payload,
                   cli_execute, cli_calls, cli_result>>

\* if self.DONE_MARKER in buf:
MarkerSeen(b) == Contains(b, DONE_MARKER)

MarkerCheck ==
    /\ pc = "marker_check"
    /\ pc' = IF MarkerSeen(buf) THEN "crlf" ELSE AfterSerial
    /\ UNCHANGED <<disable_serial, on_ready, ser_arg, manage_tty,
                   install_sigint_handler, tty_attrs, sigint_handler, ser_state,
                   created_ser, ready_fired, old_tty, prev_sig, buf, r, data,
                   tty_at_entry, sigint_at_entry, exit, exc, ser_reads, in_reads,
                   sigints, sigint_raised, os_write_calls, ser_write_calls,
                   tcsetattr_calls, serial_ctor_calls, ser_close_calls,
                   on_ready_calls, debug_calls, keymap, disable_keyboard,
                   log_keystrokes, kb_pc, text, keystrokes, kb_i, keystroke_count,
                   kb_error, kb_events, kb_log_calls, wpm, device_path, wpm_arg,
                   delay, sends, started_before, tokens, cfg_data, cfg_load_called,
                   cfg_last, cfg_defaults, cli_payload, cli_execute, cli_calls,
                   cli_result>>

\* os.write(fd_out, b"\r\n"); break
CrlfWrite ==
    /\ pc = "crlf"
    /\ os_write_calls' = Append(os_write_calls, <<"crlf", CRLF>>)
    /\ exit' = "marker"
    /\ pc' = "finally_tty"
    /\ \/ exc' = exc
       \/ exc' = "os.write"
    /\ UNCHANGED <<disable_serial, on_ready, ser_arg, manage_tty,
                   install_sigint_handler, tty_attrs, sigint_handler, ser_state,
                   created_ser, ready_fired, old_tty, prev_sig, buf, r, data,
                   tty_at_entry, sigint_at_entry, ser_reads, in_reads, sigints,
                   sigint_raised, ser_write_calls, tcsetattr_calls,
                   serial_ctor_calls, ser_close_calls, on_ready_calls, debug_calls,
                   keymap, disable_keyboard, log_keystrokes, kb_pc, text, keystrokes,
                   kb_i, keystroke_count, kb_error, kb_events, kb_log_calls, wpm,
                   device_path, wpm_arg, delay, sends, started_before, tokens,
                   cfg_data, cfg_load_called, cfg_last, cfg_defaults, cli_payload,
                   cli_execute, cli_calls, cli_result>>

\* data = os.read(fd_in, 4096)
InRead ==
    /\ pc = "in_read"
    /\ \/ /\ \E d \in InChunks :
               /\ Len(d) <= ReadSize
               /\ data' = d
               /\ in_reads' = Append(in_reads, d)
               /\ pc' = "dispatch"
          /\ UNCHANGED <<exc, exit>>
       \/ /\ exc' = "os.read"
          /\ exit' = "exception"
          /\ pc' = "finally_tty"
          /\ UNCHANGED <<data, in_reads>>
    /\ UNCHANGED <<disable_serial, on_ready, ser_arg, manage_tty,
                   install_sigint_handler, tty_attrs, sigint_handler, ser_state,
                   created_ser, ready_fired, old_tty, prev_sig, buf, r, tty_at_entry,
                   sigint_at_entry, ser_reads, sigints, sigint_raised,
                   os_write_calls, ser_write_calls, tcsetattr_calls,
                   serial_ctor_calls, ser_close_calls, on_ready_calls, debug_calls,
                   keymap, disable_keyboard, log_keystrokes, kb_pc, text, keystrokes,
                   kb_i, keystroke_count, kb_error, kb_events, kb_log_calls, wpm,
                   device_path, wpm_arg, delay, sends, started_before, tokens,
                   cfg_data, cfg_load_called, cfg_last, cfg_defaults, cli_payload,
                   cli_execute, cli_calls, cli_result>>

\* A detach that looks for 0x1D at the head of the chunk only.
Route_DetachAtHeadOnly(d) ==
    IF d = <<>> THEN "eof"
    ELSE IF d[1] = GS THEN "detach"
    ELSE IF d = EOT THEN "ctrl_d"
    ELSE "forward"

\* The branch the local chunk takes:
\*   if not data: ...  if b"\x1d" in data: ...  if data == b"\x04": ...
Route(d) ==
    IF d = <<>> THEN "eof"
    ELSE IF HasByte(d, GS) THEN "detach"
    ELSE IF d = EOT THEN "ctrl_d"
    ELSE "forward"

\* A local EOF that ends the loop without telling the remote.
SerialBytes_SilentEof(d) ==
    CASE Route(d) = "eof" -> <<>>
      [] Route(d) = "detach" -> <<>>
      [] Route(d) = "ctrl_d" -> <<EOT>>
      [] OTHER -> <<d>>

\* A lone Ctrl-D branch without its `continue`: it falls through to
\* ser.write(data) and sends the byte twice.
SerialBytes_CtrlDFallsThrough(d) ==
    CASE Route(d) = "eof" -> <<EOT>>
      [] Route(d) = "detach" -> <<>>
      [] Route(d) = "ctrl_d" -> <<EOT, d>>
      [] OTHER -> <<d>>

\* What the branch writes to serial: ser.write(b"\x04") on EOF and on a lone
\* Ctrl-D, nothing on detach, ser.write(data) otherwise.
SerialBytes(d) ==
    CASE Route(d) = "eof" -> <<EOT>>
      [] Route(d) = "detach" -> <<>>
      [] Route(d) = "ctrl_d" -> <<EOT>>
      [] OTHER -> <<d>>

\* A lone Ctrl-D that ends the session like a local EOF.
Breaks_OnCtrlD(d) == Route(d) \in {"eof", "detach", "ctrl_d"}

\* Whether the branch ends the loop (break) or goes on (continue, fall through).
Breaks(d) == Route(d) \in {"eof", "detach"}

Logged(who, chunks) == [i \in 1..Len(chunks) |-> <<who, chunks[i]>>]

\* The four branches of the local side.
Dispatch ==
    /\ pc = "dispatch"
    /\ ser_write_calls' = ser_write_calls \o Logged("loop", SerialBytes(data))
    /\ \/ /\ pc' = IF Breaks(data) THEN "finally_tty" ELSE "select"
          /\ exit' = IF Breaks(data) THEN Route(data) ELSE exit
          /\ exc' = exc
       \/ /\ SerialBytes(data) # <<>>
          /\ pc' = "finally_tty"
          /\ exit' = IF Breaks(data) THEN Route(data) ELSE "exception"
          /\ exc' = "ser.write"
    /\ UNCHANGED <<disable_serial, on_ready, ser_arg, manage_tty,
                   install_sigint_handler, tty_attrs, sigint_handler, ser_state,
                   created_ser, ready_fired, old_tty, prev_sig, buf, r, data,
                   tty_at_entry, sigint_at_entry, ser_reads, in_reads, sigints,
                   sigint_raised, os_write_calls, tcsetattr_calls, serial_ctor_calls,
                   ser_close_calls, on_ready_calls, debug_calls, keymap,
                   disable_keyboard, log_keystrokes, kb_pc, text, keystrokes, kb_i,
                   keystroke_count, kb_error, kb_events, kb_log_calls, wpm,
                   device_path, wpm_arg, delay, sends, started_before, tokens,
                   cfg_data, cfg_load_called, cfg_last, cfg_defaults, cli_payload,
                   cli_execute, cli_calls, cli_result>>

\* ---------------------------------------------------- stdio: finally

\* A call that lets its exception out.
Suppressed_Leaks(e, raised) == IF raised = "none" THEN e ELSE raised

\* with suppress(Exception): the exception state of stdio() after a call
\* under suppress that raised or not.
Suppressed(e, raised) == e

\* A restore that runs only when the loop ended without an exception.
RestoresTty_UnlessRaised == manage_tty /\ old_tty # "None" /\ exc = "none"

\* if manage_tty and old_tty is not None:
RestoresTty == manage_tty /\ old_tty # "None"

\*     with suppress(Exception): termios.tcsetattr(fd_in, TCSADRAIN, old_tty)
FinallyTty ==
    /\ pc = "finally_tty"
    /\ pc' = "finally_sig"
    /\ IF RestoresTty
       THEN \E res \in {"ok", "raised"} :
              /\ tcsetattr_calls' = Append(tcsetattr_calls, <<old_tty, res>>)
              /\ tty_attrs' = IF res = "ok" THEN old_tty ELSE tty_attrs
              /\ exc' = Suppressed(exc, IF res = "ok" THEN "none" ELSE "tcsetattr")
       ELSE UNCHANGED <<tcsetattr_calls, tty_attrs, exc>>
    /\ UNCHANGED <<disable_serial, on_ready, ser_arg, manage_tty,
                   install_sigint_handler, sigint_handler, ser_state, created_ser,
                   ready_fired, old_tty, prev_sig, buf, r, data, tty_at_entry,
                   sigint_at_entry, exit, ser_reads, in_reads, sigints,
                   sigint_raised, os_write_calls, ser_write_calls, serial_ctor_calls,
                   ser_close_calls, on_ready_calls, debug_calls, keymap,
                   disable_keyboard, log_keystrokes, kb_pc, text, keystrokes, kb_i,
                   keystroke_count, kb_error, kb_events, kb_log_calls, wpm,
                   device_path, wpm_arg, delay, sends, started_before, tokens,
                   cfg_data, cfg_load_called, cfg_last, cfg_defaults, cli_payload,
                   cli_execute, cli_calls, cli_result>>

\* if install_sigint_handler and prev_sig is not None
RestoresSig == install_sigint_handler /\ prev_sig # "None"

\*     with suppress(Exception): signal.signal(signal.SIGINT, prev_sig)
FinallySig ==
    /\ pc = "finally_sig"
    /\ pc' = "finally_close"
    /\ sigint_handler' = IF RestoresSig THEN prev_sig ELSE sigint_handler
    /\ UNCHANGED <<disable_serial, on_ready, ser_arg, manage_tty,
                   install_sigint_handler, tty_attrs, ser_state, created_ser,
                   ready_fired, old_tty, prev_sig, buf, r, data, tty_at_entry,
                   sigint_at_entry, exit, exc, ser_reads, in_reads, sigints,
                   sigint_raised, os_write_calls, ser_write_calls, tcsetattr_calls,
                   serial_ctor_calls, ser_close_calls, on_ready_calls, debug_calls,
                   keymap, disable_keyboard, log_keystrokes, kb_pc, text, keystrokes,
                   kb_i, keystroke_count, kb_error, kb_events, kb_log_calls, wpm,
                   device_path, wpm_arg, delay, sends, started_before, tokens,
                   cfg_data, cfg_load_called, cfg_last, cfg_defaults, cli_payload,
                   cli_execute, cli_calls, cli_result>>

\* if created_ser: with suppress(Exception): ser.close()
FinallyClose ==
    /\ pc = "finally_close"
    /\ pc' = "closed"
    /\ IF created_ser
       THEN \E res \in {"ok", "raised"} :
              /\ ser_close_calls' = Append(ser_close_calls, res)
              /\ ser_state' = IF res = "ok" THEN "closed" ELSE ser_state
              /\ exc' = Suppressed(exc, IF res = "ok" THEN "none" ELSE "close")
       ELSE UNCHANGED <<ser_close_calls, ser_state, exc>>
    /\ UNCHANGED <<disable_serial, on_ready, ser_arg, manage_tty,
                   install_sigint_handler, tty_attrs, sigint_handler, created_ser,
                   ready_fired, old_tty, prev_sig, buf, r, data, tty_at_entry,
                   sigint_at_entry, exit, ser_reads, in_reads, sigints,
                   sigint_raised, os_write_calls, ser_write_calls, tcsetattr_calls,
                   serial_ctor_calls, on_ready_calls, debug_calls, keymap,
                   disable_keyboard, log_keystrokes, kb_pc, text, keystrokes, kb_i,
                   keystroke_count, kb_error, kb_events, kb_log_calls, wpm,
                   device_path, wpm_arg, delay, sends, started_before, tokens,
                   cfg_data, cfg_load_called, cfg_last, cfg_defaults, cli_payload,
                   cli_execute, cli_calls, cli_result>>

\* ------------------------------------------------------------ on_sigint

\* A handler that raises KeyboardInterrupt into the loop, as Python's default
\* SIGINT handler does.
Resume_Unwinds(p) ==
    IF p \in {"new", "idle", "closed", "finally_tty", "finally_sig", "finally_close"}
    THEN p ELSE "finally_tty"

\* Where the program goes on when on_sigint has returned: where it was.
Resume(p) == p

\* An interrupt while on_sigint is the process's SIGINT handler, at any
\* point of the program: with suppress(Exception): ser.write(b"\x03").
\* The write may raise; a connection that is not open raises before
\* anything is written.
Sigint ==
    /\ sigint_handler = "on_sigint"
    /\ Events < MaxEvents
    /\ sigints' = sigints + 1
    /\ \E res \in (IF ser_state = "open" THEN {"ok", "raised"} ELSE {"raised"}) :
         /\ ser_write_calls' =
              IF ser_state = "open"
              THEN Append(ser_write_calls, <<"on_sigint", ETX>>)
              ELSE ser_write_calls
         /\ sigint_raised' = sigint_raised + (IF res = "raised" THEN 1 ELSE 0)
         /\ exc' = Suppressed(exc, IF res = "ok" THEN "none" ELSE "on_sigint")
    /\ pc' = Resume(pc)
    /\ UNCHANGED <<disable_serial, on_ready, ser_arg, manage_tty,
                   install_sigint_handler, tty_attrs, sigint_handler, ser_state,
                   created_ser, ready_fired, old_tty, prev_sig, buf, r, data,
                   tty_at_entry, sigint_at_entry, exit, ser_reads, in_reads,
                   os_write_calls, tcsetattr_calls, serial_ctor_calls,
                   ser_close_calls, on_ready_calls, debug_calls, keymap,
                   disable_keyboard, log_keystrokes, kb_pc, text, keystrokes, kb_i,
                   keystroke_count, kb_error, kb_events, kb_log_calls, wpm,
                   device_path, wpm_arg, delay, sends, started_before, tokens,
                   cfg_data, cfg_load_called, cfg_last, cfg_defaults, cli_payload,
                   cli_execute, cli_calls, cli_result>>

\* ----------------------------------------------------------------- Next

Setup == Construct \/ StdioDisabled \/ StdioOpen \/ SetupTty \/ SetupSig

SerialSide(menu) == SerRead(menu) \/ FireReady \/ Extend \/ OsWrite \/ MarkerCheck \/ CrlfWrite

LocalSide == InRead \/ Dispatch

Finally == FinallyTty \/ FinallySig \/ FinallyClose

Next == Setup \/ Select \/ SerialSide(SerChunks) \/ LocalSide \/ Finally \/ Sigint

Spec == Init /\ [][Next]_vars


\* ------------------------------------------------------------- Keyboard.send

\* A send() that starts the counter anew.
CountAtSend_Reset(n) == 0

\* The keystroke counter across the start of a send(): send() does not
\* touch it.
CountAtSend(n) == n

\* The groups of the current call whose processing has started.
StartedInCall == kb_i + (IF kb_pc \in {"sleep", "failed"} THEN 1 ELSE 0)

\* send(text, wpm) on a Keyboard that is not in a send(), at most max calls
\* of it, the text spelled by a list of tokens: the delay, the keystroke groups of the text, then the loop over
\* them.
SendOf(lists, wpms, max) ==
    /\ kb_pc \in {"idle", "done", "failed"}
    /\ sends < max
    /\ sends' = sends + 1
    /\ started_before' = started_before + StartedInCall
    /\ keystroke_count' = CountAtSend(keystroke_count)
    /\ kb_i' = 0
    /\ kb_error' = NoError
    /\ kb_events' = <<>>
    /\ kb_log_calls' = <<>>
    /\ \E toks \in lists, w \in wpms :
       LET t == Render(toks) IN
         /\ tokens' = toks
         /\ text' = t
         /\ wpm_arg' = w
         /\ delay' = WpmToDelay(EffectiveWpm(wpm, w))
         /\ keystrokes' = Keystrokes(t, 1)
         /\ kb_pc' = IF Keystrokes(t, 1) = <<>> THEN "done" ELSE "process"
    /\ UNCHANGED <<disable_serial, on_ready, ser_arg, manage_tty,
                   install_sigint_handler, tty_attrs, sigint_handler, ser_state, pc,
                   created_ser, ready_fired, old_tty, prev_sig, buf, r, data,
                   tty_at_entry, sigint_at_entry, exit, exc, ser_reads, in_reads,
                   sigints, sigint_raised, os_write_calls, ser_write_calls,
                   tcsetattr_calls, serial_ctor_calls, ser_close_calls,
                   on_ready_calls, debug_calls, keymap, disable_keyboard,
                   log_keystrokes, wpm, device_path, cfg_data, cfg_load_called,
                   cfg_last, cfg_defaults, cli_payload, cli_execute, cli_calls,
                   cli_result>>

\* One send() of one keystroke group at the instance's typing speed.
Send == SendOf({ <<t>> : t \in GroupTexts }, {<<>>}, 1)

\* A device that is written before it is released: the release frame first.
DeviceWrites_ReleaseFirst(report) ==
    << <<"open", <<>>>>, <<"write", ZeroFrame>>, <<"write", report>> >>

\* with open(self.device_path, "rb+") as hid: hid.write(bytearray(report));
\* hid.write(bytearray([0x00] * 8))
DeviceWrites(report) ==
    << <<"open", <<>>>>, <<"write", report>>, <<"write", ZeroFrame>> >>

\* A Keyboard that has no dry-run mode.
WriteSkipped_Never == FALSE

\* if self.disable_keyboard: return
WriteSkipped == disable_keyboard

\* A device error passed on as it came, without the device path.
DeviceError_Unlabelled(errno, path) == [kind |-> "OSError", key |-> <<>>, path |-> ""]

\* except FileNotFoundError: raise FileNotFoundError(f"Device path '{path}' not found.")
\* except PermissionError: raise PermissionError(f"Permission denied for device path '{path}'.")
\* open() raises the first for ENOENT and the second for EACCES.
DeviceError(errno, path) ==
    [kind |-> IF errno = "ENOENT" THEN "FileNotFoundError" ELSE "PermissionError",
     key |-> <<>>,
     path |-> path]

\* A failed send() that takes back what it has written.
EventsOnFailure_RolledBack(ev) == <<>>

\* What the call has done so far, across an exception of _process_keystroke:
\* nothing is undone.
EventsOnFailure(ev) == ev

\* A dry run that does not log: the message only for a group that goes to
\* the device.
Logs_NotInDryRun == log_keystrokes /\ ~disable_keyboard

\* A Keyboard that logs every keystroke, whatever its flag.
Logs_Always == TRUE

\* if self.log_keystrokes:
Logs == log_keystrokes

RECURSIVE Decimal(_)
\* str(n) for n >= 0
Decimal(n) ==
    IF n < 10 THEN <<DigitChars[n + 1]>>
    ELSE Append(Decimal(n \div 10), DigitChars[(n % 10) + 1])

RECURSIVE ZeroPadded(_, _)
\* The digits s filled with zeros on the left up to width w.
ZeroPadded(s, w) == IF Len(s) >= w THEN s ELSE ZeroPadded(<<"0">> \o s, w)

\* f"{byte:02X}"
Hex02(byte) ==
    IF byte < 16 THEN <<"0", HexChars[byte + 1]>>
    ELSE <<HexChars[(byte \div 16) + 1], HexChars[(byte % 16) + 1]>>

RECURSIVE JoinWith(_, _)
\* sep.join(parts)
JoinWith(parts, sep) ==
    IF parts = <<>> THEN <<>>
    ELSE IF Len(parts) = 1 THEN parts[1]
    ELSE parts[1] \o sep \o JoinWith(Tail(parts), sep)

\* f"{self.keystroke_count:05}  {formatted_report}  {' + '.join(keys)}"
LogMessage(count, report, keys) ==
    ZeroPadded(Decimal(count), 5)
        \o <<" ", " ">>
        \o JoinWith([i \in 1..Len(report) |-> Hex02(report[i])], <<" ">>)
        \o <<" ", " ">>
        \o JoinWith(keys, <<" ", "+", " ">>)

\* self._process_keystroke(key) for the next group: the counter, the report
\* or the error of the group, the log line, and _write_report, which does
\* nothing when the keyboard is disabled and may find the device missing
\* (ENOENT) or forbidden (EACCES).
ProcessKeystroke ==
    /\ kb_pc = "process"
    /\ keystroke_count' = keystroke_count + 1
    /\ LET keystroke == keystrokes[kb_i + 1]
           built == Encode(keystroke, keymap)
           logged == IF Logs
                     THEN Append(kb_events, <<"log", built.report>>)
                     ELSE kb_events
       IN IF built.error # NoError
          THEN /\ kb_error' = built.error
               /\ kb_pc' = "failed"
               /\ kb_events' = EventsOnFailure(kb_events)
               /\ UNCHANGED kb_log_calls
          ELSE /\ kb_log_calls' =
                    IF Logs
                    THEN Append(kb_log_calls,
                                LogMessage(keystroke_count + 1, built.report, KeysOf(keystroke)))
                    ELSE kb_log_calls
               /\ IF WriteSkipped
                  THEN /\ kb_events' = logged
                       /\ kb_pc' = "sleep"
                       /\ kb_error' = kb_error
                  ELSE \E dev \in {"ok", "ENOENT", "EACCES"} :
                         /\ kb_events' = IF dev = "ok" THEN logged \o DeviceWrites(built.report)
                                                       ELSE Append(logged, <<"open", <<dev>>>>)
                         /\ kb_pc' = IF dev = "ok" THEN "sleep" ELSE "failed"
                         /\ kb_error' = IF dev = "ok" THEN kb_error
                                        ELSE DeviceError(dev, device_path)
    /\ UNCHANGED <<disable_serial, on_ready, ser_arg, manage_tty,
                   install_sigint_handler, tty_attrs, sigint_handler, ser_state, pc,
                   created_ser, ready_fired, old_tty, prev_sig, buf, r, data,
                   tty_at_entry, sigint_at_entry, exit, exc, ser_reads, in_reads,
                   sigints, sigint_raised, os_write_calls, ser_write_calls,
                   tcsetattr_calls, serial_ctor_calls, ser_close_calls,
                   on_ready_calls, debug_calls, keymap, disable_keyboard,
                   log_keystrokes, text, keystrokes, kb_i, wpm, device_path, wpm_arg,
                   delay, sends, started_before, tokens, cfg_data, cfg_load_called,
                   cfg_last, cfg_defaults, cli_payload, cli_execute, cli_calls,
                   cli_result>>

\* time.sleep(delay), and the next round of `for key in keystrokes:`
Sleep ==
    /\ kb_pc = "sleep"
    /\ kb_events' = Append(kb_events, <<"sleep", delay>>)
    /\ kb_i' = kb_i + 1
    /\ kb_pc' = IF kb_i + 1 = Len(keystrokes) THEN "done" ELSE "process"
    /\ UNCHANGED <<disable_serial, on_ready, ser_arg, manage_tty,
                   install_sigint_handler, tty_attrs, sigint_handler, ser_state, pc,
                   created_ser, ready_fired, old_tty, prev_sig, buf, r, data,
                   tty_at_entry, sigint_at_entry, exit, exc, ser_reads, in_reads,
                   sigints, sigint_raised, os_write_calls, ser_write_calls,
                   tcsetattr_calls, serial_ctor_calls, ser_close_calls,
                   on_ready_calls, debug_calls, keymap, disable_keyboard,
                   log_keystrokes, text, keystrokes, keystroke_count, kb_error,
                   kb_log_calls, wpm, device_path, wpm_arg, delay, sends,
                   started_before, tokens, cfg_data, cfg_load_called, cfg_last,
                   cfg_defaults, cli_payload, cli_execute, cli_calls, cli_result>>

\* The relay as constructed, disabled, with nothing to do.
RelayUnused ==
    /\ RelayWith({"None"})
    /\ disable_serial /\ ~ser_arg /\ ~manage_tty /\ ~install_sigint_handler

InitKeys ==
    /\ RelayUnused
    /\ KeyboardWith({KeymapTest}, BOOLEAN, BOOLEAN)
    /\ KeyboardDefaults
    /\ ProcessInit

NextKeys == Send \/ ProcessKeystroke \/ Sleep

SpecKeys == InitKeys /\ [][NextKeys]_vars

\* ------------------------------------------------- send() of longer texts

\* A second device path.
OtherPath == "/dev/hidg1"

\* One send() of a text of several keystroke groups, at the instance's
\* typing speed, on a Keyboard with the keymap of the mixed-text test, any
\* flags and one of two device paths.
SendText == SendOf(TokenLists(MaxTokens) \cup {MixedTokens}, {<<>>}, 1)

InitSend ==
    /\ RelayUnused
    /\ KeyboardWith({KeymapMixed}, BOOLEAN, BOOLEAN)
    /\ wpm = DefaultWpm
    /\ device_path \in {DefaultPath, OtherPath}
    /\ ProcessInit

NextSend == SendText \/ ProcessKeystroke \/ Sleep

SpecSend == InitSend /\ [][NextSend]_vars

\* ------------------------------------------------------ the typing speed

\* The typing speeds of the runs: below, at and above both ends of the
\* clamp, zero and a negative one.
PaceWpms == {-5, 0, 1, 9, 10, 11, 400, 999, 1000, 1001, 5000}

\* One send() of a short text, with a wpm argument or without one.
SendPaced == SendOf({<<KeyA>>, <<KeyA, KeyB>>}, {<<>>} \cup { <<w>> : w \in PaceWpms }, 1)

InitPace ==
    /\ RelayUnused
    /\ KeyboardWith({KeymapMixed}, {FALSE}, {FALSE})
    /\ wpm \in PaceWpms
    /\ device_path = DefaultPath
    /\ ProcessInit

NextPace == SendPaced \/ ProcessKeystroke \/ Sleep

SpecPace == InitPace /\ [][NextPace]_vars

\* ------------------------------------------------------- several send()s

\* The most calls of send() on one Keyboard.
MaxSends == 3

\* The texts of the calls: one group, two groups, an unknown key alone and
\* after a known one, and a group that overflows.
CountLists == { <<KeyA>>, <<KeyA, KeyB>>, <<KeyZ>>, <<KeyA, KeyZ>>, <<Escape(SevenKeys)>> }

SendAgain == SendOf(CountLists, {<<>>}, MaxSends)

InitCount ==
    /\ RelayUnused
    /\ KeyboardWith({KeymapMixed}, BOOLEAN, {FALSE})
    /\ KeyboardDefaults
    /\ ProcessInit

NextCount == SendAgain \/ ProcessKeystroke \/ Sleep

SpecCount == InitCount /\ [][NextCount]_vars

\* ------------------------------------------------------- Config.load / get

\* A load() that normalizes and stores the table itself.
DefaultsAfter_Stored(table, stored) == stored

\* _defaults across a load(): data is a copy of the table (.copy()), the
\* sections of the file are new dicts (resolved = {}) and _apply_normalizers
\* works on copies of the sections (out = {s: dict(v) ...}), so nothing is
\* written into the table.
DefaultsAfter(table, stored) == table

\* Config.load(filepath): the defaults with a warning, the merged values of
\* the file, or an exception that leaves _data as it was.
Load ==
    \E target \in Targets, file \in Files :
        LET out == LoadOutcome(target, file)
        IN /\ cfg_load_called' = TRUE
           /\ cfg_data' = IF out.raised # "none" THEN cfg_data
                          ELSE [loaded |-> TRUE, sections |-> out.sections]
           /\ cfg_defaults' = IF out.raised # "none" THEN cfg_defaults
                              ELSE DefaultsAfter(cfg_defaults, out.sections)
           /\ cfg_last' = [op |-> "load", target |-> target, file |-> file,
                           section |-> "", key |-> "", default |-> None,
                           raised |-> out.raised, value |-> None,
                           warning |-> out.warning]
    /\ UNCHANGED <<disable_serial, on_ready, ser_arg, manage_tty,
                   install_sigint_handler, tty_attrs, sigint_handler, ser_state, pc,
                   created_ser, ready_fired, old_tty, prev_sig, buf, r, data,
                   tty_at_entry, sigint_at_entry, exit, exc, ser_reads, in_reads,
                   sigints, sigint_raised, os_write_calls, ser_write_calls,
                   tcsetattr_calls, serial_ctor_calls, ser_close_calls,
                   on_ready_calls, debug_calls, keymap, disable_keyboard,
                   log_keystrokes, kb_pc, text, keystrokes, kb_i, keystroke_count,
                   kb_error, kb_events, kb_log_calls, wpm, device_path, wpm_arg,
                   delay, sends, started_before, tokens, cli_payload, cli_execute,
                   cli_calls, cli_result>>

\* A get() that never raises: None before any load().
GetResult_Lenient(d, section, key, default) ==
    IF ~d.loaded THEN [raised |-> "none", value |-> None]
    ELSE IF section \notin DOMAIN d.sections THEN [raised |-> "none", value |-> default]
    ELSE IF key \in DOMAIN d.sections[section]
         THEN [raised |-> "none", value |-> d.sections[section][key]]
         ELSE [raised |-> "none", value |-> default]

\* if cls._data is None: raise RuntimeError(...); if section not in
\* cls._data: return default; return cls._data[section].get(key, default)
GetResult(d, section, key, default) ==
    IF ~d.loaded THEN [raised |-> "RuntimeError", value |-> None]
    ELSE IF section \notin DOMAIN d.sections THEN [raised |-> "none", value |-> default]
    ELSE IF key \in DOMAIN d.sections[section]
         THEN [raised |-> "none", value |-> d.sections[section][key]]
         ELSE [raised |-> "none", value |-> default]

\* The sections, keys and defaults of the calls of get(): those of the
\* tests, a key of another section, a section only the file has.
GetSections == {"keyboard", "serial", "dev", "keybaord", "extra"}
GetKeys == {"wpm", "path", "log_level", "log_keystrokes", "colour", "unknown"}
GetDefaults == {None, StrV(<<"n", "e", "w", "_", "v", "a", "l", "u", "e">>), IntV(400)}

\* Config.get(section, key, default)
Get ==
    \E section \in GetSections, key \in GetKeys, default \in GetDefaults :
        LET res == GetResult(cfg_data, section, key, default)
        IN cfg_last' = [op |-> "get", target |-> "", file |-> FileEmpty,
                        section |-> section, key |-> key,
                        default |-> default, raised |-> res.raised,
                        value |-> res.value, warning |-> ""]
    /\ UNCHANGED <<disable_serial, on_ready, ser_arg, manage_tty,
                   install_sigint_handler, tty_attrs, sigint_handler, ser_state, pc,
                   created_ser, ready_fired, old_tty, prev_sig, buf, r, data,
                   tty_at_entry, sigint_at_entry, exit, exc, ser_reads, in_reads,
                   sigints, sigint_raised, os_write_calls, ser_write_calls,
                   tcsetattr_calls, serial_ctor_calls, ser_close_calls,
                   on_ready_calls, debug_calls, keymap, disable_keyboard,
                   log_keystrokes, kb_pc, text, keystrokes, kb_i, keystroke_count,
                   kb_error, kb_events, kb_log_calls, wpm, device_path, wpm_arg,
                   delay, sends, started_before, tokens, cfg_data, cfg_load_called,
                   cfg_defaults, cli_payload, cli_execute, cli_calls, cli_result>>

InitConfig == RelayUnused /\ KeyboardUnused /\ ProcessInit

NextConfig == Load \/ Get

SpecConfig == InitConfig /\ [][NextConfig]_vars

\* ------------------------------------------------------------- cmd_execute

\* What importlib.import_module("pirate.payloads.<payload>") finds: no such
\* module or package (ModuleNotFoundError naming it), a module that imports
\* something that is not installed (ModuleNotFoundError naming that), a
\* module without execute, one whose execute is not callable, one with a
\* function execute.
PayloadKinds == {"missing", "broken_import", "no_execute", "execute_not_callable", "valid"}

\* What execute() does: it returns, or it raises an Exception, the
\* PayloadNotFoundError of the cli module, or a BaseException that is no
\* Exception (KeyboardInterrupt, SystemExit).
Executes == {"returns", "Exception", "PayloadNotFoundError", "KeyboardInterrupt"}

\* Config.get("dev", "stack_trace_errors", False) and
\* Config.get("dev", "log_level", Logger.INFO) of a loaded configuration.
StackTraceErrors == cfg_data.sections["dev"]["stack_trace_errors"] = BoolV(TRUE)
DebugLevel == cfg_data.sections["dev"]["log_level"] = Level("DEBUG")

\* A handler that catches everything execute() can raise.
Caught_Everything(kind) == kind # "none"

\* except PayloadNotFoundError / except Exception: the exceptions the try of
\* cmd_execute catches; KeyboardInterrupt and SystemExit are no Exceptions.
Caught(kind) == kind \in {"PayloadNotFoundError", "ModuleNotFoundError", "Exception"}

\* The calls of cmd_execute up to the end of its try block, and the
\* exception that ends the block, "none" when a return does.
TryBlock(payload, execute) ==
    LET start == << <<"info", "Starting PiRate...">> >>
                   \o (IF DebugLevel THEN << <<"debug", "Developer logging enabled.">> >>
                                     ELSE <<>>)
                   \o (IF StackTraceErrors THEN << <<"debug", "Stack trace errors enabled.">> >>
                                           ELSE <<>>)
                   \o << <<"import", payload>> >>
    IN IF payload = "missing"
       THEN [calls |-> start, raised |-> "PayloadNotFoundError", rc |-> -1]
       ELSE IF payload = "broken_import"
       THEN [calls |-> start, raised |-> "ModuleNotFoundError", rc |-> -1]
       ELSE IF payload \in {"no_execute", "execute_not_callable"}
       THEN [calls |-> Append(start, <<"error", "missing callable execute()">>),
             raised |-> "none", rc |-> 1]
       ELSE LET called == start \o << <<"info", "Executing payload">>, <<"execute", payload>> >>
            IN IF execute = "returns"
               THEN [calls |-> Append(called, <<"success", "Payload complete.">>),
                     raised |-> "none", rc |-> 0]
               ELSE [calls |-> called, raised |-> execute, rc |-> -1]

\* cmd_execute(ns), reached through main() after Config.load() has
\* returned: the try block and its two handlers.
CmdExecute ==
    /\ cfg_data.loaded
    /\ \E payload \in PayloadKinds, execute \in Executes :
         LET t == TryBlock(payload, execute)
         IN /\ cli_payload' = payload
            /\ cli_execute' = execute
            /\ IF t.raised = "none"
               THEN /\ cli_calls' = t.calls
                    /\ cli_result' = [rc |-> t.rc, raised |-> "none", stack_trace |-> StackTraceErrors]
               ELSE IF ~Caught(t.raised)
               THEN /\ cli_calls' = t.calls
                    /\ cli_result' = [rc |-> -1, raised |-> t.raised, stack_trace |-> StackTraceErrors]
               ELSE IF t.raised = "PayloadNotFoundError"
               THEN /\ cli_calls' = Append(t.calls, <<"error", "No payload named">>)
                    /\ cli_result' = [rc |-> 1, raised |-> "none", stack_trace |-> StackTraceErrors]
               ELSE IF StackTraceErrors
               THEN /\ cli_calls' = t.calls
                    /\ cli_result' = [rc |-> -1, raised |-> t.raised, stack_trace |-> StackTraceErrors]
               ELSE /\ cli_calls' = Append(t.calls, <<"error", "Failed to run payload">>)
                    /\ cli_result' = [rc |-> 1, raised |-> "none", stack_trace |-> StackTraceErrors]
    /\ UNCHANGED <<disable_serial, on_ready, ser_arg, manage_tty,
                   install_sigint_handler, tty_attrs, sigint_handler, ser_state, pc,
                   created_ser, ready_fired, old_tty, prev_sig, buf, r, data,
                   tty_at_entry, sigint_at_entry, exit, exc, ser_reads, in_reads,
                   sigints, sigint_raised, os_write_calls, ser_write_calls,
                   tcsetattr_calls, serial_ctor_calls, ser_close_calls,
                   on_ready_calls, debug_calls, keymap, disable_keyboard,
                   log_keystrokes, kb_pc, text, keystrokes, kb_i, keystroke_count,
                   kb_error, kb_events, kb_log_calls, wpm, device_path, wpm_arg,
                   delay, sends, started_before, tokens, cfg_data, cfg_load_called,
                   cfg_last, cfg_defaults>>

InitCli == RelayUnused /\ KeyboardUnused /\ ProcessInit

NextCli == Load \/ CmdExecute

SpecCli == InitCli /\ [][NextCli]_vars
\* The runs about split markers: the configuration of
\* test_done_marker_across_chunks (an enabled relay without callback on the
\* caller's connection, manage_tty and install_sigint_handler off) with the
\* serial side delivering every piece of the marker.
InitSplit ==
    /\ InitWith({"None"})
    /\ ~disable_serial
    /\ ser_arg
    /\ ~manage_tty
    /\ ~install_sigint_handler

NextSplit ==
    \/ Construct \/ StdioOpen \/ SetupTty \/ SetupSig
    \/ Select \/ SerialSide(SplitChunks) \/ LocalSide \/ Finally

SpecSplit == InitSplit /\ [][NextSplit]_vars

\* ============================================================== properties

RECURSIVE Flatten(_)
\* b"".join(chunks)
Flatten(chunks) ==
    IF chunks = <<>> THEN <<>> ELSE Head(chunks) \o Flatten(Tail(chunks))

\* The loop has been left (break or exception): the finally block is running
\* or has run.
LoopLeft == exit # "none"

\* The finally block has restored the terminal, if it restores it at all.
PastTtyRestore == pc \in {"finally_sig", "finally_close", "closed"}

\* The arguments of the writes to local output, and of the loop's writes to serial.
Payloads(calls) == [i \in 1..Len(calls) |-> calls[i][2]]
LoopWrites == SelectSeq(ser_write_calls, LAMBDA c : c[1] = "loop")

\* C1: with manage_tty on, once the loop has been left (marker, detach, EOF
\* or any exception) the finally block has called tcsetattr exactly once, with
\* the attributes the terminal had at entry, and the terminal has those
\* attributes again unless that very call raised (its failure is suppressed).
C1_TtyRestoredOnEveryExit ==
    (manage_tty /\ LoopLeft /\ PastTtyRestore) =>
        /\ Len(tcsetattr_calls) = 1
        /\ tcsetattr_calls[1][1] = tty_at_entry
        /\ (tcsetattr_calls[1][2] = "ok" => tty_attrs = tty_at_entry)

\* C1 witness: a session on a raw terminal that the ready callback's exception
\* ended, with the terminal raw again.
C1_Witness ==
    /\ pc = "closed" /\ manage_tty /\ exit = "exception" /\ exc = "on_ready"
    /\ tty_at_entry = "raw" /\ tty_attrs = "raw"

\* C2: with install_sigint_handler on, the handler in place at entry (None
\* included) is in place again when stdio() has ended through the loop, and
\* after stdio() has ended no interrupt writes to the serial connection.
C2_HandlerRestored ==
    [][ /\ (install_sigint_handler /\ exit' # "none" /\ pc' = "closed")
              => sigint_handler' = sigint_at_entry
        /\ pc = "closed" => ser_write_calls' = ser_write_calls ]_vars

\* C3: stdio() closes the connection only in its finally block, once, and
\* only a connection it opened itself; the caller's connection stays open and
\* is never closed; a close() that raises leaves no exception behind.
C3_ClosedIffOpenedHere ==
    /\ ser_arg => (ser_close_calls = <<>> /\ ser_state = "open")
    /\ pc # "closed" => ser_close_calls = <<>>
    /\ (pc = "closed" /\ LoopLeft) =>
          /\ Len(ser_close_calls) = (IF ser_arg THEN 0 ELSE 1)
          /\ (ser_close_calls = <<"ok">> => ser_state = "closed")
    /\ exc # "close"

\* C3 witness: a session on a connection stdio() opened, ended by the marker,
\* whose close() raised, and stdio() returned normally.
C3_Witness ==
    /\ pc = "closed" /\ ~ser_arg /\ exit = "marker" /\ exc = "none"
    /\ ser_close_calls = <<"raised">>

\* The CRLF writes among the writes to local output.
CrlfCount == Cardinality({ i \in 1..Len(os_write_calls) : os_write_calls[i][1] = "crlf" })

\* The loop is at a point from which it reads again.
Relaying == pc \in {"select", "ser_read", "ready", "extend", "in_read", "dispatch"}

\* C4: the loop never goes on with the marker in the detection buffer: when
\* the marker check finds it, the data of that read has just been written,
\* one CRLF follows and the loop ends; a marker cut in two at any point over
\* two consecutive reads is in the buffer at the check; and a CRLF is written
\* once on the marker exit and never on another exit.
C4_MarkerExit ==
    LET n == Len(ser_reads)
        w == Len(os_write_calls)
    IN /\ Relaying => ~MarkerSeen(buf)
       /\ pc = "crlf" =>
             (MarkerSeen(buf) /\ w >= 1 /\ os_write_calls[w] = <<"data", ser_reads[n]>>)
       /\ \A k \in 1..(Len(DONE_MARKER) - 1) :
             (pc = "marker_check" /\ n >= 2 /\ ser_reads[n - 1] = Prefix(k)
                                  /\ ser_reads[n] = Suffix(k)) => MarkerSeen(buf)
       /\ exit = "marker" =>
             /\ ~Relaying
             /\ CrlfCount = 1
             /\ w >= 2
             /\ os_write_calls[w] = <<"crlf", CRLF>>
             /\ os_write_calls[w - 1] = <<"data", ser_reads[n]>>
       /\ exit # "marker" => CrlfCount = 0

\* C4 witness: b"__PI" then b"RATE_DONE__" ended the session with one CRLF.
C4_Witness ==
    /\ pc = "closed" /\ exit = "marker" /\ ser_reads = <<Prefix(4), Suffix(4)>>
    /\ Payloads(os_write_calls) = <<Prefix(4), Suffix(4), CRLF>>

\* C5: the step that handles a local chunk holding 0x1D anywhere ends the
\* loop as a detach and writes nothing to serial: no byte of the chunk and
\* no 0x04.
C5_DetachForwardsNothing ==
    [][ (pc = "dispatch" /\ pc' # "dispatch" /\ HasByte(data, GS)) =>
            /\ pc' = "finally_tty"
            /\ exit' = "detach"
            /\ ser_write_calls' = ser_write_calls
            /\ os_write_calls' = os_write_calls ]_vars

\* C5 witness: the chunk b"a\x1d\x04" detached the session and serial got nothing.
C5_Witness ==
    /\ pc = "closed" /\ exit = "detach" /\ in_reads = <<<<97, GS, 4>>>>
    /\ ser_write_calls = <<>>

\* C6: the step that handles an empty local read writes the single byte 0x04
\* to serial, once, writes nothing to local output and ends the loop.
C6_EofSendsOneEot ==
    [][ (pc = "dispatch" /\ pc' # "dispatch" /\ data = <<>>) =>
            /\ pc' = "finally_tty"
            /\ exit' = "eof"
            /\ ser_write_calls' = Append(ser_write_calls, <<"loop", EOT>>)
            /\ os_write_calls' = os_write_calls ]_vars

\* C6 witness: after b"ls\n", local EOF: serial got b"ls\n" and one 0x04.
C6_Witness ==
    /\ pc = "closed" /\ exit = "eof" /\ in_reads = <<Ls, <<>>>>
    /\ Payloads(ser_write_calls) = <<Ls, EOT>>

\* C7: the step that handles the chunk b"\x04" writes one 0x04 to serial and,
\* unless that write raises, the loop goes back to waiting with the session
\* still open.
C7_LoneCtrlDContinues ==
    [][ (pc = "dispatch" /\ pc' # "dispatch" /\ data = EOT) =>
            /\ ser_write_calls' = Append(ser_write_calls, <<"loop", EOT>>)
            /\ os_write_calls' = os_write_calls
            /\ exc' \in {exc, "ser.write"}
            /\ exc' = exc => (pc' = "select" /\ exit' = "none") ]_vars

\* C7 witness: after a lone Ctrl-D the next chunk b"ls\n" was read and forwarded.
C7_Witness ==
    /\ pc = "select" /\ exit = "none" /\ in_reads = <<EOT, Ls>>
    /\ Payloads(ser_write_calls) = <<EOT, Ls>>

RECURSIVE Forwardable(_)
\* The local chunks that are not empty and hold no 0x1D, joined in read order.
Forwardable(reads) ==
    IF reads = <<>> THEN <<>>
    ELSE (IF Head(reads) = <<>> \/ HasByte(Head(reads), GS) THEN <<>> ELSE Head(reads))
             \o Forwardable(Tail(reads))

\* The last local read returned no bytes.
LocalEof == in_reads # <<>> /\ in_reads[Len(in_reads)] = <<>>

\* C8: whenever no local chunk is waiting to be handled, and so at the end of
\* the session, the bytes the loop has written to serial are the forwardable
\* local chunks in read order, followed by one 0x04 exactly when local input
\* reached EOF.
C8_SerialBytes ==
    pc # "dispatch" =>
        /\ Flatten(Payloads(LoopWrites)) =
               Forwardable(in_reads) \o (IF LocalEof THEN EOT ELSE <<>>)
        /\ LocalEof <=> exit = "eof"

\* C8 witness: b"ls\n", a lone Ctrl-D, then EOF.
C8_Witness ==
    /\ pc = "closed" /\ in_reads = <<Ls, EOT, <<>>>>
    /\ Flatten(Payloads(LoopWrites)) = <<108, 115, 10, 4, 4>>

\* C9: once the loop has been left, the bytes written to local output are the
\* serial reads joined in read order, followed by CRLF exactly on the marker
\* exit.
C9_OutputBytes ==
    LoopLeft =>
        Flatten(Payloads(os_write_calls)) =
            Flatten(ser_reads) \o (IF exit = "marker" THEN CRLF ELSE <<>>)

\* What a disabled relay leaves alone: the devices, the locals and every log
\* but the debug log.
DisabledFrame ==
    UNCHANGED <<world, created_ser, ready_fired, old_tty, prev_sig, buf, r, data,
                exit, exc, ser_reads, in_reads, sigints, sigint_raised, os_write_calls,
                ser_write_calls, tcsetattr_calls, serial_ctor_calls,
                ser_close_calls, on_ready_calls>>

NonEmptyReads == Cardinality({ i \in 1..Len(ser_reads) : ser_reads[i] # <<>> })

\* C11: the ready callback is called at most once in a session, whether it
\* returns or raises; the call is made in the step that follows a non-empty
\* serial read, the first of the session, and at no other step: the count of
\* calls is 1 exactly when a callback is set and the first non-empty serial
\* read has passed that step, and 0 otherwise.
C11_ReadyAtMostOnce ==
    /\ on_ready_calls <= 1
    /\ on_ready_calls =
         (IF on_ready # "None"
             /\ (NonEmptyReads >= 2 \/ (NonEmptyReads = 1 /\ pc # "ready"))
          THEN 1 ELSE 0)
    /\ (pc = "ready" /\ on_ready # "None" /\ on_ready_calls = 0) =>
          (data # <<>> /\ NonEmptyReads = 1 /\ ser_reads[Len(ser_reads)] = data)

\* C11 witness: local input and two non-empty serial
\* reads, and the callback was called once.
C11_Witness ==
    /\ on_ready = "returns" /\ on_ready_calls = 1 /\ ready_fired
    /\ ser_reads = <<Hi, Hi>> /\ in_reads = <<Ls>> /\ pc = "marker_check"

\* C12: an exception of the ready callback does not end the loop: the step
\* that calls the callback goes on to the buffer update with no exception
\* pending, whatever the callback does.
C12_CallbackFailureSwallowed ==
    [][ pc = "ready" => (pc' = "extend" /\ exit' = exit /\ exc' = exc) ]_vars

\* The runs about a full detection buffer: the configuration of InitSplit
\* with the serial side delivering long reads.
NextLong ==
    \/ Construct \/ StdioOpen \/ SetupTty \/ SetupSig
    \/ Select \/ SerialSide(LongChunks) \/ LocalSide \/ Finally

SpecLong == InitSplit /\ [][NextLong]_vars

\* The last n bytes of b, all of b when it is shorter.
LastBytes(b, n) == IF Len(b) > n THEN SubSeq(b, Len(b) - n + 1, Len(b)) ELSE b

\* C13: at every marker check and at every wait on readiness the detection
\* buffer holds at most len(DONE_MARKER) + 1024 bytes, and they are the last
\* bytes of the serial reads so far joined in read order: all of them while
\* they fit, the newest len(DONE_MARKER) + 1024 of them afterwards.
C13_BufferIsBoundedSuffix ==
    pc \in {"marker_check", "select"} =>
        /\ Len(buf) <= Len(DONE_MARKER) + 1024
        /\ buf = LastBytes(Flatten(ser_reads), Len(DONE_MARKER) + 1024)

\* C13 witness: b"hi\n", 1024 bytes of other output and the marker: the
\* buffer is full, has lost b"hi\n" and ends with the marker.
C13_Witness ==
    /\ pc = "marker_check" /\ ser_reads = <<Hi, Filler(BufSlack), DONE_MARKER>>
    /\ Len(buf) = max_buf /\ buf[1] = 120
    /\ SubSeq(buf, BufSlack + 1, max_buf) = DONE_MARKER

\* The steps of the try block: the loop is running.
InLoop ==
    pc \in {"select", "ser_read", "ready", "extend", "os_write", "marker_check",
            "crlf", "in_read", "dispatch"}

\* C14: every interrupt that on_sigint handles makes one call
\* ser.write(b"\x03"), of the single byte 0x03, and no other write; whether
\* the call returns or raises, no exception is pending afterwards that was
\* not pending before, and the loop is where it was.  While the loop runs
\* the connection is open, so the call is always made.
C14_OneEtxPerInterrupt ==
    [][ sigints' # sigints =>
          /\ sigints' = sigints + 1
          /\ sigint_handler = "on_sigint"
          /\ ETX = <<3>>
          /\ InLoop => ser_state = "open"
          /\ ser_state = "open" =>
                ser_write_calls' = Append(ser_write_calls, <<"on_sigint", ETX>>)
          /\ ser_state # "open" =>
                (ser_write_calls' = ser_write_calls /\ sigint_raised' = sigint_raised + 1)
          /\ os_write_calls' = os_write_calls
          /\ exc' = exc /\ exit' = exit /\ pc' = pc ]_vars

\* C14 witness: two interrupts while the loop waits, the write of the second
\* raised: two 0x03 calls, no exception, the loop still waiting.
C14_Witness ==
    /\ pc = "select" /\ sigints = 2 /\ sigint_raised = 1 /\ exc = "none"
    /\ ser_write_calls = <<<<"on_sigint", ETX>>, <<"on_sigint", ETX>>>>

\* C15: an interrupt at any point of the loop changes nothing the loop works
\* with: the detection buffer, the ready-fired flag, the pending read, the
\* ready set, the position in the loop and the exit reason stay as they are,
\* local output and the loop's own writes to serial are untouched, and the
\* one thing added is the handler's 0x03 at the end of the serial writes.  No
\* step of the loop depends on how many interrupts there were, so the run
\* goes on as it would have without the interrupt.
C15_InterruptLeavesLoopAlone ==
    [][ (sigints' # sigints /\ InLoop) =>
          /\ UNCHANGED <<buf, ready_fired, data, r, pc, exit, exc>>
          /\ UNCHANGED <<ser_reads, in_reads, os_write_calls, on_ready_calls>>
          /\ UNCHANGED <<world, created_ser, old_tty, prev_sig>>
          /\ SelectSeq(ser_write_calls', LAMBDA c : c[1] = "loop") = LoopWrites
          /\ Len(ser_write_calls') = Len(ser_write_calls) + 1
          /\ SubSeq(ser_write_calls', 1, Len(ser_write_calls)) = ser_write_calls ]_vars

\* C15 witness: an interrupt before b"ls\n" was forwarded: the 0x03 went
\* out first, the chunk was forwarded after it, the marker was read and the
\* session ended by the marker, local output being the marker and CRLF.
C15_Witness ==
    /\ pc = "closed" /\ exit = "marker" /\ exc = "none" /\ sigints = 1
    /\ ser_write_calls = << <<"on_sigint", ETX>>, <<"loop", Ls>> >>
    /\ Payloads(os_write_calls) = <<DONE_MARKER, CRLF>>

\* The states of the session, in the order of one traversal: idle before the
\* call and during its entry, active in the loop, closing in the finally
\* block, closed after the call.
Rank(p) ==
    CASE p \in {"new", "idle"} -> 0
      [] p \in {"setup_tty", "setup_sig"} -> 1
      [] p \in {"select", "ser_read", "ready", "extend", "os_write",
                "marker_check", "crlf", "in_read", "dispatch"} -> 2
      [] p = "finally_tty" -> 3
      [] p = "finally_sig" -> 4
      [] p = "finally_close" -> 5
      [] OTHER -> 6

\* C16: one enabled call is one traversal: no state is entered again; the
\* loop is left only into the finally block and only by an empty local read,
\* a local chunk holding 0x1D, a marker match or an exception, and every
\* other step of the loop stays in the loop; the three steps of the cleanup
\* run once each, in order; and once the call has ended no stream is read or
\* written any more.
C16_OneTraversal ==
    [][ /\ Rank(pc') >= Rank(pc)
        /\ (InLoop /\ Rank(pc') # 2) =>
              /\ pc' = "finally_tty"
              /\ \/ pc = "dispatch" /\ data = <<>> /\ exit' = "eof"
                 \/ pc = "dispatch" /\ HasByte(data, GS) /\ exit' = "detach"
                 \/ pc = "crlf" /\ MarkerSeen(buf) /\ exit' = "marker"
                 \/ exc' # exc /\ exit' = "exception"
        /\ (InLoop /\ exc' = exc /\ pc # "crlf"
                   /\ ~(pc = "dispatch" /\ (data = <<>> \/ HasByte(data, GS)))) =>
              (Rank(pc') = 2 /\ exit' = "none")
        /\ (Rank(pc) \in {3, 4, 5} /\ pc' # pc) => Rank(pc') = Rank(pc) + 1
        /\ Len(tcsetattr_calls') <= 1 /\ Len(ser_close_calls') <= 1
        /\ pc = "closed" =>
              UNCHANGED <<ser_reads, in_reads, os_write_calls, ser_write_calls>> ]_vars

\* ------------------------------------------------------ Keyboard properties

\* The frames written to the device, in order.
HidWrites ==
    LET w == SelectSeq(kb_events, LAMBDA e : e[1] = "write")
    IN [i \in 1..Len(w) |-> w[i][2]]

\* The group of the text has been processed by an enabled keyboard whose
\* device could be opened.
Delivered ==
    /\ kb_pc \in {"sleep", "done", "failed"}
    /\ ~disable_keyboard
    /\ kb_error.kind \notin {"FileNotFoundError", "PermissionError"}

\* The value of a two-digit hexadecimal string of the keymap.
HexByte(h) == 16 * HexDigit(h[1]) + HexDigit(h[2])

\* The report of one key alone: its modifier in byte 0, its keycode in byte 2.
SingleKeyReport(k) ==
    [i \in 1..8 |-> IF i = 1 THEN HexByte(keymap[k][1])
                    ELSE IF i = 3 THEN HexByte(keymap[k][2]) ELSE 0]

\* C17: for every key of the keymap sent alone, as a plain character or as
\* {KEY:name}, the frames written are the report with the key's modifier in
\* byte 0 and its keycode in byte 2, and the all-zero release frame.
C17_SingleKeyFrames ==
    \A k \in DOMAIN keymap :
        (Delivered /\ ((text = k /\ Len(k) = 1) \/ text = Escape(k))) =>
            /\ kb_error = NoError
            /\ HidWrites = <<SingleKeyReport(k), ZeroFrame>>

\* The text is one escape without spaces.
IsEscape ==
    /\ Len(text) >= 6
    /\ SubSeq(text, 1, 5) = KEY_OPEN
    /\ \A i \in 1..Len(text) : text[i] # " "

\* The key names the escape lists, in listed order.
Listed == Split(SubSeq(text, 6, Len(text) - 1), "+")

\* The text is a combo of keys of the keymap.
IsCombo == IsEscape /\ \A i \in 1..Len(Listed) : Listed[i] \in DOMAIN keymap

\* The modifiers and the keycodes of the listed keys.
Mods == [i \in 1..Len(Listed) |-> HexByte(keymap[Listed[i]][1])]
Codes == [i \in 1..Len(Listed) |-> HexByte(keymap[Listed[i]][2])]
NonZeroCodes == SelectSeq(Codes, LAMBDA c : c # 0)

\* Bit b of the byte x, and the byte that has every bit some modifier has.
BitOf(x, b) == (x \div (2 ^ b)) % 2
OrOfMods ==
    LET bit(b) == IF \E i \in 1..Len(Mods) : BitOf(Mods[i], b) = 1 THEN 2 ^ b ELSE 0
    IN bit(0) + bit(1) + bit(2) + bit(3) + bit(4) + bit(5) + bit(6) + bit(7)

\* C18 as stated: for every combo of 2 to 6 keys, byte 0 of the report is
\* the OR of the modifiers and the keycode of the i-th listed key is in byte
\* 1 + i, a keycode 00 included.
C18_KeycodesInListedSlots ==
    (Delivered /\ IsCombo /\ Len(Listed) \in 2..6) =>
        /\ kb_error = NoError
        /\ Len(HidWrites) = 2
        /\ HidWrites[1][1] = OrOfMods
        /\ \A i \in 1..Len(Listed) : HidWrites[1][2 + i] = Codes[i]

\* C18 amended: for every combo of 2 to 6 keys the report is written, byte 0
\* is the OR of the modifiers, byte 1 is 0, the non-zero keycodes of the keys
\* fill bytes 2, 3, ... in listed order and the bytes after them are 0; when
\* every key has a non-zero keycode, the keycode of the i-th key is in byte
\* 1 + i.
C18_NonZeroKeycodesInListedOrder ==
    (Delivered /\ IsCombo /\ Len(Listed) \in 2..6) =>
        /\ kb_error = NoError
        /\ Len(HidWrites) = 2
        /\ HidWrites[1][1] = OrOfMods
        /\ HidWrites[1][2] = 0
        /\ SubSeq(HidWrites[1], 3, 2 + Len(NonZeroCodes)) = NonZeroCodes
        /\ \A i \in (3 + Len(NonZeroCodes))..8 : HidWrites[1][i] = 0
        /\ (Len(NonZeroCodes) = Len(Listed)) =>
               \A i \in 1..Len(Listed) : HidWrites[1][2 + i] = Codes[i]

\* C18 witness: {KEY:B+a+WIN+B+a+a}: modifiers 02 | 08, keycodes 05 04 05 04 04.
C18_Witness ==
    /\ text = Escape(JoinKeys(<<KeyShiftB, KeyA, KeyWin, KeyShiftB, KeyA, KeyA>>))
    /\ HidWrites = << <<10, 0, 5, 4, 5, 4, 4, 0>>, ZeroFrame >>

\* C19: a key whose keycode is 00 gives its modifier bits to byte 0 and takes
\* no slot: a combo of up to 6 keys is always written, and in every report
\* written for a combo the modifier bits of its 00-keycode keys are set in
\* byte 0, the non-zero bytes among bytes 2..7 are the non-zero keycodes of
\* the keys in listed order, and no zero byte stands before a non-zero one;
\* {KEY:WIN+r} gives 08 00 15 00 00 00 00 00.
C19_ModifierOnlyKeyTakesNoSlot ==
    (Delivered /\ IsCombo) =>
        /\ Len(Listed) <= 6 => kb_error = NoError
        /\ kb_error = NoError =>
              /\ Len(HidWrites) = 2
              /\ \A i \in 1..Len(Listed) : \A b \in 0..7 :
                    (Codes[i] = 0 /\ BitOf(Mods[i], b) = 1) => BitOf(HidWrites[1][1], b) = 1
              /\ SelectSeq(SubSeq(HidWrites[1], 3, 8), LAMBDA c : c # 0) = NonZeroCodes
              /\ \A i \in 3..7 : HidWrites[1][i] = 0 => HidWrites[1][i + 1] = 0
        /\ text = Escape(KeyWin \o <<"+">> \o KeyR) =>
              (Len(HidWrites) = 2 /\ HidWrites[1] = <<8, 0, 21, 0, 0, 0, 0, 0>>)

\* C19 witness: {KEY:a+WIN+B}, the modifier-only key between two others.
C19_Witness ==
    /\ text = Escape(JoinKeys(<<KeyA, KeyWin, KeyShiftB>>))
    /\ HidWrites = << <<10, 0, 4, 5, 0, 0, 0, 0>>, ZeroFrame >>

\* C20: every group that names 7 or more keys fails with the report-overflow
\* error, and no frame is written for it.
C20_SevenKeysOverflow ==
    (kb_pc \in {"sleep", "done", "failed"} /\ IsCombo /\ Len(Listed) >= 7) =>
        /\ kb_error.kind = "HIDReportError"
        /\ HidWrites = <<>>

\* ------------------------------------------------------ texts of many groups

\* The keystroke group a token stands for: the character itself, or the
\* combo of the escape with its spaces removed.
GroupOf(tok) ==
    IF Len(tok) = 1 THEN tok
    ELSE SelectSeq(SubSeq(tok, 6, Len(tok) - 1), LAMBDA ch : ch # " ")

GroupsOf(toks) == [i \in 1..Len(toks) |-> GroupOf(toks[i])]

\* The key names a token stands for: the character, or the names the combo
\* lists between its "+".
NamesOf(tok) == IF Len(tok) = 1 THEN <<tok>> ELSE Split(GroupOf(tok), "+")

\* Every key the text names is a key of the keymap.
AllKnown ==
    \A i \in 1..Len(tokens) :
        \A j \in 1..Len(NamesOf(tokens[i])) : NamesOf(tokens[i])[j] \in DOMAIN keymap

\* The device could not be opened.
DeviceFailed == kb_error.kind \in {"FileNotFoundError", "PermissionError"}

\* The call of send() has returned or raised.
SendOver == kb_pc \in {"done", "failed"}

\* C21: a text of m characters outside escapes and k escapes is cut into
\* m + k keystroke groups in text order, a character its own group and an
\* escape one group with its spaces removed, and when every key is in the
\* keymap the send() on an enabled keyboard with a writable device completes
\* with 2(m + k) frame writes.
C21_GroupsAndWrites ==
    kb_pc # "idle" =>
        /\ keystrokes = GroupsOf(tokens)
        /\ (SendOver /\ AllKnown /\ ~disable_keyboard /\ ~DeviceFailed) =>
               (kb_pc = "done" /\ Len(HidWrites) = 2 * Len(tokens))

\* The cut into groups alone, which holds for every text.
GroupsInTextOrder == kb_pc # "idle" => keystrokes = GroupsOf(tokens)

\* send("ab{KEY:WIN+r}c") on an enabled keyboard with a writable device:
\* the groups a, b, WIN+r, c and 8 writes.
MixedTextExample ==
    (tokens = MixedTokens /\ SendOver /\ ~disable_keyboard /\ ~DeviceFailed) =>
        /\ keystrokes = <<KeyA, KeyB, KeyWin \o <<"+">> \o KeyR, KeyC>>
        /\ kb_pc = "done"
        /\ Len(HidWrites) = 8

\* The report of group i of the call.
ReportOf(i) == Encode(keystrokes[i], keymap).report

\* What the call has written and slept, in order: the log lines and the
\* opens of the device left out.
WritesAndSleeps == SelectSeq(kb_events, LAMBDA e : e[1] \in {"write", "sleep"})

RECURSIVE PacedGroups(_)
\* Groups 1..n delivered one after the other: report, release frame, delay.
PacedGroups(n) ==
    IF n = 0 THEN <<>>
    ELSE PacedGroups(n - 1)
           \o << <<"write", ReportOf(n)>>, <<"write", ZeroFrame>>, <<"sleep", delay>> >>

\* C22: on an enabled keyboard the writes and the sleeps of a send() are, at
\* every moment, report, release and delay of the groups already done, one
\* group after the other, then report and release of the group whose delay
\* is due; a send() that returns has slept once per group, the last sleep
\* after the last release frame.
C22_ReportReleaseDelay ==
    (~disable_keyboard /\ kb_pc # "idle") =>
        /\ WritesAndSleeps =
              PacedGroups(kb_i)
                \o (IF kb_pc = "sleep"
                    THEN << <<"write", ReportOf(kb_i + 1)>>, <<"write", ZeroFrame>> >>
                    ELSE <<>>)
        /\ kb_pc = "done" =>
              /\ kb_i = Len(keystrokes)
              /\ Len(SelectSeq(kb_events, LAMBDA e : e[1] = "sleep")) = Len(keystrokes)
              /\ kb_events[Len(kb_events)] = <<"sleep", delay>>

\* A send() of three groups has returned: a, WIN+r and b, each written,
\* released and slept for.
C22_Witness ==
    /\ kb_pc = "done"
    /\ ~disable_keyboard
    /\ ~log_keystrokes
    /\ tokens = <<KeyA, Escape(KeyWin \o <<"+">> \o KeyR), KeyB>>
    /\ Len(kb_events) = 12
    /\ kb_events[2] = <<"write", <<0, 0, 4, 0, 0, 0, 0, 0>> >>
    /\ kb_events[6] = <<"write", <<8, 0, 21, 0, 0, 0, 0, 0>> >>
    /\ kb_events[7] = <<"write", ZeroFrame>>
    /\ kb_events[8] = <<"sleep", <<3, 100>> >>

\* The wpm the call asked for, and that value brought into 10..1000.
AskedWpm == IF wpm_arg = <<>> THEN wpm ELSE wpm_arg[1]
ClampedWpm == IF AskedWpm < 10 THEN 10 ELSE IF AskedWpm > 1000 THEN 1000 ELSE AskedWpm

\* C23: the delay of a send() is that of the wpm argument when there is one
\* and of the instance's wpm otherwise, brought into 10..1000: delay *
\* clamped wpm * 5 = 60, the delay a positive number with a non-zero
\* denominator, 6/5 s for wpm 1 and 3/250 s for wpm 5000; every sleep of the
\* call lasts that long.
C23_DelayFromClampedWpm ==
    kb_pc # "idle" =>
        /\ delay[2] > 0
        /\ delay[1] > 0
        /\ delay[1] * ClampedWpm * 5 = 60 * delay[2]
        /\ AskedWpm = 1 => delay = <<6, 5>>
        /\ AskedWpm = 5000 => delay = <<3, 250>>
        /\ \A i \in 1..Len(kb_events) :
              kb_events[i][1] = "sleep" => kb_events[i][2] = delay

\* A send(text, wpm=0) on a Keyboard of 5000 wpm has slept 6/5 s.
C23_Witness ==
    /\ kb_pc = "done"
    /\ wpm = 5000
    /\ wpm_arg = <<0>>
    /\ delay = <<6, 5>>
    /\ kb_events[Len(kb_events)] = <<"sleep", <<6, 5>> >>

\* The group at which the call has failed, and the key names it lists.
FailedAt == kb_i + 1
FailedNames == NamesOf(tokens[FailedAt])

\* The group lists a key that the keymap does not have; the first such key.
NamesAbsentKey(names) == \E j \in 1..Len(names) : names[j] \notin DOMAIN keymap
FirstAbsent(names) ==
    CHOOSE j \in 1..Len(names) :
        /\ names[j] \notin DOMAIN keymap
        /\ \A h \in 1..(j - 1) : names[h] \in DOMAIN keymap

\* The frames written so far are those of the groups before the failed one.
OnlyEarlierGroupsWritten ==
    Len(HidWrites) = IF disable_keyboard THEN 0 ELSE 2 * kb_i

\* The first token of the text that lists an absent key, 0 if there is none.
FirstUnknownToken ==
    IF \E i \in 1..Len(tokens) : NamesAbsentKey(NamesOf(tokens[i]))
    THEN CHOOSE i \in 1..Len(tokens) :
           /\ NamesAbsentKey(NamesOf(tokens[i]))
           /\ \A h \in 1..(i - 1) : ~NamesAbsentKey(NamesOf(tokens[h]))
    ELSE 0

\* No send() gets past a group that lists an absent key.
StopsAtUnknownKey ==
    (kb_pc # "idle" /\ FirstUnknownToken # 0) =>
        /\ kb_i < FirstUnknownToken
        /\ kb_i = FirstUnknownToken - 1 => kb_pc \in {"process", "failed"}

\* C24 as stated: a group that lists an absent key, at whatever place of the
\* combo, stops the send() with the unknown-key error that names the first
\* absent key, and no frame is written for the group.
C24_UnknownKeyNamed ==
    /\ StopsAtUnknownKey
    /\ (kb_pc = "failed" /\ ~DeviceFailed /\ NamesAbsentKey(FailedNames)) =>
          /\ kb_error = [kind |-> "KeymapError",
                         key |-> FailedNames[FirstAbsent(FailedNames)],
                         path |-> ""]
          /\ OnlyEarlierGroupsWritten

\* Six keys with non-zero keycodes stand before the key that precedes the
\* first absent key: that key finds the report full.
FullBefore(names) ==
    LET p == FirstAbsent(names)
        early == SubSeq(names, 1, p - 2)
    IN Len(SelectSeq(early, LAMBDA k : HexByte(keymap[k][2]) # 0)) >= 6

\* C24: a group that lists an absent key stops the send() and no frame is
\* written for the group; the error is the unknown-key error that names the
\* first absent key, unless six keys with non-zero keycodes and one more key
\* stand before it, when it is the report-overflow error.
C24_UnknownKeyUnlessFull ==
    /\ StopsAtUnknownKey
    /\ (kb_pc = "failed" /\ ~DeviceFailed /\ NamesAbsentKey(FailedNames)) =>
          /\ kb_error = IF FullBefore(FailedNames)
                        THEN [kind |-> "HIDReportError", key |-> <<>>, path |-> ""]
                        ELSE [kind |-> "KeymapError",
                              key |-> FailedNames[FirstAbsent(FailedNames)],
                              path |-> ""]
          /\ OnlyEarlierGroupsWritten

\* send("a{KEY:WIN+a+a+a+a+a+a+z}"): a is written and released, the escape
\* fails with the unknown key z, its eighth key.
C24_Witness ==
    /\ kb_pc = "failed"
    /\ ~disable_keyboard
    /\ tokens = <<KeyA, Escape(KeyWin \o <<"+">> \o JoinKeys([i \in 1..6 |-> KeyA])
                                  \o <<"+">> \o KeyZ)>>
    /\ kb_i = 1
    /\ kb_error = [kind |-> "KeymapError", key |-> KeyZ, path |-> ""]
    /\ HidWrites = << <<0, 0, 4, 0, 0, 0, 0, 0>>, ZeroFrame >>

\* The report of the group could not be built.
EncoderFailed == kb_pc = "failed" /\ kb_error.kind \in {"KeymapError", "HIDReportError"}

\* C25: when a send() fails with an unknown key or a report overflow at its
\* k-th group, what it has written and slept is report, release and delay of
\* the groups 1..k-1, in order, and nothing else: nothing of group k or of a
\* later group, and nothing of the earlier groups taken back. (A disabled
\* keyboard has slept k-1 times and written nothing.)
C25_PrefixDelivered ==
    EncoderFailed =>
        /\ kb_i < Len(keystrokes)
        /\ Encode(keystrokes[FailedAt], keymap).error = kb_error
        /\ \A i \in 1..kb_i : Encode(keystrokes[i], keymap).error = NoError
        /\ Len(SelectSeq(kb_events, LAMBDA e : e[1] = "sleep")) = kb_i
        /\ ~disable_keyboard => WritesAndSleeps = PacedGroups(kb_i)
        /\ disable_keyboard => HidWrites = <<>>

\* send("ab{KEY:aaaaaaa as a combo}"): a and b are delivered, the third
\* group overflows.
C25_Witness ==
    /\ EncoderFailed
    /\ ~disable_keyboard
    /\ tokens = <<KeyA, KeyB, Escape(SevenKeys)>>
    /\ kb_error.kind = "HIDReportError"
    /\ kb_i = 2
    /\ WritesAndSleeps =
         << <<"write", <<0, 0, 4, 0, 0, 0, 0, 0>> >>, <<"write", ZeroFrame>>,
            <<"sleep", <<3, 100>> >>,
            <<"write", <<0, 0, 5, 0, 0, 0, 0, 0>> >>, <<"write", ZeroFrame>>,
            <<"sleep", <<3, 100>> >> >>

\* C26: a Keyboard with the disable flag set never opens and never writes
\* the device, whatever the text.
C26_DisabledNeverOpens ==
    disable_keyboard =>
        \A i \in 1..Len(kb_events) : kb_events[i][1] \notin {"open", "write"}

\* A disabled keyboard has processed three groups and returned.
C26_Witness ==
    /\ disable_keyboard
    /\ kb_pc = "done"
    /\ kb_i = 3
    /\ tokens = <<KeyA, Escape(KeyWin \o <<"+">> \o KeyR), KeyB>>
    /\ Len(SelectSeq(kb_events, LAMBDA e : e[1] = "sleep")) = 3

\* C27: the keystroke counter is 0 before the first send(), it is at every
\* moment the number of groups whose processing has started, in this call
\* and in the calls before it, a group that failed included, and no step
\* lowers it: a step raises it by one or leaves it alone.
C27_CounterCountsStartedGroups ==
    /\ [](/\ sends = 0 => keystroke_count = 0
          /\ keystroke_count = started_before + StartedInCall)
    /\ [][keystroke_count' \in {keystroke_count, keystroke_count + 1}]_vars

\* Third send() on one Keyboard, after send("ab") and a failed send("az"):
\* its group is number 5 and fails with an unknown key.
C27_Witness ==
    /\ sends = 3
    /\ started_before = 4
    /\ tokens = <<KeyZ>>
    /\ kb_pc = "failed"
    /\ kb_error.kind = "KeymapError"
    /\ keystroke_count = 5

\* The open() of the device has failed: the last thing the call did.
OpenFailed(errno) ==
    /\ kb_events # <<>>
    /\ kb_events[Len(kb_events)] = <<"open", <<errno>> >>

\* C28: on an enabled keyboard a missing device path surfaces as
\* FileNotFoundError and a forbidden one as PermissionError, each naming the
\* device path; the send() ends there, before the delay of the group, with
\* the earlier groups delivered and the later ones unsent.
C28_DeviceErrorsNamed ==
    /\ DeviceFailed => (kb_pc = "failed" /\ (OpenFailed("ENOENT") \/ OpenFailed("EACCES")))
    /\ \A errno \in {"ENOENT", "EACCES"} :
         OpenFailed(errno) =>
            /\ ~disable_keyboard
            /\ kb_pc = "failed"
            /\ kb_error.kind = (IF errno = "ENOENT" THEN "FileNotFoundError"
                                                     ELSE "PermissionError")
            /\ kb_error.path = device_path
            /\ kb_i < Len(keystrokes)
            /\ WritesAndSleeps = PacedGroups(kb_i)

\* send("ab") with the device /dev/hidg1 gone after the first group: a is
\* delivered, b fails with FileNotFoundError naming the path.
C28_Witness ==
    /\ OpenFailed("ENOENT")
    /\ device_path = OtherPath
    /\ tokens = <<KeyA, KeyB>>
    /\ kb_i = 1
    /\ kb_error = [kind |-> "FileNotFoundError", key |-> <<>>, path |-> OtherPath]
    /\ Len(HidWrites) = 2

\* The same text with the device forbidden.
C28_WitnessPermission ==
    /\ OpenFailed("EACCES")
    /\ tokens = <<KeyA, KeyB>>
    /\ kb_error = [kind |-> "PermissionError", key |-> <<>>, path |-> device_path]

\* The groups of the call whose report has been built: the finished ones,
\* the one whose delay is due and the one whose device write has failed.
ReportsBuilt == kb_i + (IF kb_pc = "sleep" \/ (kb_pc = "failed" /\ DeviceFailed) THEN 1 ELSE 0)

\* The decimal digit and the uppercase hexadecimal digit a character is, 16
\* for any other character.
DigitValue(ch) ==
    IF \E v \in 0..15 : HexChars[v + 1] = ch
    THEN CHOOSE v \in 0..15 : HexChars[v + 1] = ch
    ELSE 16

RECURSIVE SpacedPlus(_)
\* The group with " + " for every "+".
SpacedPlus(g) ==
    IF g = <<>> THEN <<>>
    ELSE (IF Head(g) = "+" THEN <<" ", "+", " ">> ELSE <<Head(g)>>) \o SpacedPlus(Tail(g))

\* The message is the line of group j, the n-th group of the Keyboard: five
\* decimal digits that read n, two spaces, the eight bytes of the report as
\* pairs of uppercase hexadecimal digits with one space between them, two
\* spaces, the key names with " + " between them.
IsLogLine(msg, j, n) ==
    /\ Len(msg) = 32 + Len(SpacedPlus(keystrokes[j]))
    /\ \A d \in 1..5 : DigitValue(msg[d]) < 10
    /\ 10000 * DigitValue(msg[1]) + 1000 * DigitValue(msg[2]) + 100 * DigitValue(msg[3])
         + 10 * DigitValue(msg[4]) + DigitValue(msg[5]) = n
    /\ msg[6] = " " /\ msg[7] = " "
    /\ \A b \in 1..8 :
         /\ DigitValue(msg[3 * b + 5]) < 16
         /\ DigitValue(msg[3 * b + 6]) < 16
         /\ 16 * DigitValue(msg[3 * b + 5]) + DigitValue(msg[3 * b + 6]) = ReportOf(j)[b]
         /\ msg[3 * b + 7] = " "
    /\ msg[32] = " "
    /\ SubSeq(msg, 33, Len(msg)) = SpacedPlus(keystrokes[j])

\* In the order of the call, every log line stands right before the open of
\* the device for its group, and every open has its log line.
LoggedBeforeWrite ==
    \A i \in 1..Len(kb_events) :
        /\ (kb_events[i][1] = "open" /\ log_keystrokes) =>
              (i > 1 /\ kb_events[i - 1][1] = "log")
        /\ (kb_events[i][1] = "log" /\ ~disable_keyboard /\ i < Len(kb_events)) =>
              kb_events[i + 1][1] = "open"
        /\ (kb_events[i][1] = "log" /\ i + 2 <= Len(kb_events)
              /\ kb_events[i + 2][1] = "write") => kb_events[i + 2][2] = kb_events[i][2]

\* What holds of the log lines whichever group fails.
LogLines ==
    /\ ~log_keystrokes => kb_log_calls = <<>>
    /\ \A j \in 1..Len(kb_log_calls) : IsLogLine(kb_log_calls[j], j, j)
    /\ LoggedBeforeWrite
    /\ (tokens = <<KeyA>> /\ kb_log_calls # <<>>) =>
          kb_log_calls[1] = <<"0", "0", "0", "0", "1", " ", " ",
                              "0", "0", " ", "0", "0", " ", "0", "4", " ", "0", "0", " ",
                              "0", "0", " ", "0", "0", " ", "0", "0", " ", "0", "0",
                              " ", " ", "a">>

\* C29 as stated: with logging on there is one message per group whose
\* report was built, before the device write of the group, made of the
\* counter in five digits, the report bytes and the key names; with logging
\* off there is none; and the group at which a send() fails has logged
\* nothing.
C29_FailedGroupLogsNothing ==
    kb_pc # "idle" =>
        /\ LogLines
        /\ log_keystrokes => Len(kb_log_calls) = ReportsBuilt
        /\ kb_pc = "failed" => Len(kb_log_calls) = (IF log_keystrokes THEN kb_i ELSE 0)

\* C29: with logging on there is one message per group whose report was
\* built, before the device write of the group, made of the counter in five
\* digits, the report bytes and the key names; with logging off there is
\* none; a group that fails with an unknown key or an overflow has logged
\* nothing, and a group whose device write fails has logged its message.
C29_OneLinePerBuiltReport ==
    kb_pc # "idle" =>
        /\ LogLines
        /\ log_keystrokes => Len(kb_log_calls) = ReportsBuilt
        /\ EncoderFailed => Len(kb_log_calls) = (IF log_keystrokes THEN kb_i ELSE 0)
        /\ (kb_pc = "failed" /\ DeviceFailed) =>
              Len(kb_log_calls) = (IF log_keystrokes THEN kb_i + 1 ELSE 0)

\* send("a{KEY:WIN + r}") with logging on and the device forbidden at the
\* second group: two messages, the second "00002  08 00 15 00 00 00 00 00
\* WIN + r", logged before the open that failed.
C29_Witness ==
    /\ log_keystrokes
    /\ kb_pc = "failed"
    /\ OpenFailed("EACCES")
    /\ tokens = <<KeyA, Escape(KeyWin \o <<" ", "+", " ">> \o KeyR)>>
    /\ Len(kb_log_calls) = 2
    /\ kb_log_calls[2] = <<"0", "0", "0", "0", "2", " ", " ",
                           "0", "8", " ", "0", "0", " ", "1", "5", " ", "0", "0", " ",
                           "0", "0", " ", "0", "0", " ", "0", "0", " ", "0", "0",
                           " ", " ", "W", "I", "N", " ", "+", " ", "r">>
    /\ kb_events[Len(kb_events) - 1] = <<"log", <<8, 0, 21, 0, 0, 0, 0, 0>> >>

\* ------------------------------------------------------------------ Config

\* The (section, key) pair of the last get() is among the loaded values.
PairLoaded ==
    /\ cfg_last.section \in DOMAIN cfg_data.sections
    /\ cfg_last.key \in DOMAIN cfg_data.sections[cfg_last.section]

\* A get() that returned gave the loaded value of the pair when there is
\* one and the caller's default otherwise, None when none was given.
GetValueOrDefault ==
    (cfg_last.op = "get" /\ cfg_last.raised = "none") =>
        cfg_last.value = IF PairLoaded
                         THEN cfg_data.sections[cfg_last.section][cfg_last.key]
                         ELSE cfg_last.default

\* C30: get(section, key, default) returns the loaded value when the pair
\* exists and the caller's default (None when none is given) when the
\* section or the key is absent; it raises nothing but the not-loaded error,
\* and that only when load() has never been called.
C30_GetReturnsValueOrDefault ==
    /\ GetValueOrDefault
    /\ cfg_last.op = "get" =>
          /\ cfg_last.raised \in {"none", "RuntimeError"}
          /\ cfg_last.raised = "RuntimeError" => ~cfg_load_called

\* The same with the not-loaded error exactly when no load() has returned:
\* this holds, a load() that raised being the only way to the error after a
\* load().
GetAfterCompletedLoad ==
    /\ GetValueOrDefault
    /\ cfg_last.op = "get" =>
          /\ cfg_last.raised \in {"none", "RuntimeError"}
          /\ cfg_last.raised = "RuntimeError" <=> ~cfg_data.loaded
    /\ cfg_data.loaded => cfg_load_called
    /\ (cfg_load_called /\ ~cfg_data.loaded) =>
          (cfg_last.op = "load" => cfg_last.raised # "none")

\* Config.get("keyboard", "wpm") after a load() of the file of the tests.
LoadedValueReturned ==
    /\ cfg_last.op = "get"
    /\ cfg_last.section = "keyboard" /\ cfg_last.key = "wpm"
    /\ cfg_last.default = None
    /\ cfg_last.value = IntV(300)
    /\ cfg_data.sections["dev"]["log_level"] = Level("DEBUG")

\* Config.get("keybaord", "unknown") of test_fallback: None.
DefaultReturned ==
    /\ cfg_last.op = "get"
    /\ cfg_data.loaded
    /\ cfg_last.section = "keybaord" /\ cfg_last.key = "unknown"
    /\ cfg_last.default = None
    /\ cfg_last.raised = "none"
    /\ cfg_last.value = None

\* The built-in defaults as a load() stores them: the table with the log
\* level "info" as a level.
StoredDefaults == [Defaults EXCEPT !["dev"]["log_level"] = Level("INFO")]

\* The files with malformed settings: no section header, a section or an
\* option twice, a word for an integer, a log level that does not exist.
MalformedFiles == {FileNoHeader, FileTwiceSection, FileTwiceOption, FileBadInt, FileBadLevel}

\* The last call was a load() of an existing .cfg file with malformed
\* settings.
MalformedLoad ==
    /\ cfg_last.op = "load"
    /\ cfg_last.target = "cfg"
    /\ cfg_last.file \in MalformedFiles

\* The last call was a load() that stored the defaults with a warning.
FellBack ==
    /\ cfg_last.raised = "none"
    /\ cfg_last.warning # ""
    /\ cfg_data = [loaded |-> TRUE, sections |-> StoredDefaults]

\* C31: no load() raises, and a load() of a file with malformed settings
\* (no section header, a section or an option twice, a non-integer value for
\* an integer key, an unknown log level) warns, stores the defaults and
\* returns.
C31_LoadNeverFails ==
    /\ cfg_last.op = "load" => cfg_last.raised = "none"
    /\ MalformedLoad => FellBack

\* Of the malformed files the one without a section header alone is
\* recovered; no other load() of the runs raises.
OnlyMissingHeaderRecovered ==
    /\ (MalformedLoad /\ cfg_last.file = FileNoHeader) => FellBack
    /\ (MalformedLoad /\ cfg_last.file # FileNoHeader) =>
          cfg_last.raised = (IF cfg_last.file = FileTwiceSection THEN "DuplicateSectionError"
                             ELSE IF cfg_last.file = FileTwiceOption THEN "DuplicateOptionError"
                             ELSE "ValueError")
    /\ (cfg_last.op = "load" /\ ~MalformedLoad) => cfg_last.raised = "none"

\* What load() stores for the file of the tests, and for the file with a
\* blank wpm, a flag "Yes", an unknown option and an unknown section.
StoredTest ==
    [keyboard |-> [layout |-> StrV(<<"u", "s">>), wpm |-> IntV(300),
                   path |-> Defaults["keyboard"]["path"], log_keystrokes |-> BoolV(FALSE)],
     serial |-> [path |-> Defaults["serial"]["path"], baud |-> IntV(9600),
                 newline |-> StrV(<<"l", "f">>)],
     dev |-> [stack_trace_errors |-> BoolV(TRUE), log_level |-> Level("DEBUG"),
              disable_keyboard |-> BoolV(FALSE), disable_serial |-> BoolV(TRUE)]]
StoredPartial == [StoredDefaults EXCEPT !["keyboard"]["log_keystrokes"] = BoolV(TRUE)]

\* The pair is in the file of the last load().
InFile(s, k) ==
    /\ s \in DOMAIN cfg_last.file.sections
    /\ k \in DOMAIN cfg_last.file.sections[s]

\* What _data holds after the last load(): the values of that load() alone.
\* The defaults after a path that is missing or does not end in .cfg, with a
\* warning; after a file, the default for every key the file does not have
\* and the value of the file for the others.
ValuesOfLastLoad ==
    /\ cfg_data.loaded
    /\ cfg_last.target # "cfg" => FellBack
    /\ cfg_last.target = "cfg" =>
          /\ \A s \in DOMAIN Defaults : \A k \in DOMAIN Defaults[s] :
                ~InFile(s, k) => cfg_data.sections[s][k] = StoredDefaults[s][k]
          /\ cfg_last.file = FileTest => cfg_data.sections = StoredTest
          /\ cfg_last.file = FilePartial => cfg_data.sections = StoredPartial
          /\ cfg_last.file = FileEmpty => cfg_data.sections = StoredDefaults

\* C32: after every load() the loaded values are those of that load() and
\* nothing of an earlier one is left: the defaults, with a warning, after a
\* missing path or a path that does not end in .cfg, the default for every
\* key the file does not have; and the table of the defaults is never
\* changed.
C32_LoadReplacesEverything ==
    /\ cfg_defaults = Defaults
    /\ cfg_last.op = "load" => ValuesOfLastLoad

\* The same for the calls of load() that return; a load() that raises leaves
\* the earlier values in place.
ReturningLoadReplaces ==
    /\ [](/\ cfg_defaults = Defaults
          /\ (cfg_last.op = "load" /\ cfg_last.raised = "none") => ValuesOfLastLoad)
    /\ [][(cfg_last'.op = "load" /\ cfg_last'.raised # "none") => cfg_data' = cfg_data]_vars

\* load() of the file of the tests and then of a missing path: the defaults.
DefaultsAfterTestFile ==
    /\ cfg_last.op = "load"
    /\ cfg_last.target = "missing"
    /\ cfg_last.warning = "No config file found. Loading defaults..."
    /\ cfg_data.sections = StoredDefaults

\* --------------------------------------------------------------------- CLI

\* The calls of execute() the last command made.
ExecuteCalls == SelectSeq(cli_calls, LAMBDA c : c[1] = "execute")

\* The command returned rc; it ended with the exception kind.
Returned(rc) == cli_result.rc = rc /\ cli_result.raised = "none"
Propagated(kind) == cli_result.rc = -1 /\ cli_result.raised = kind

\* The first two parts of C33: 0 is returned only after one call of
\* execute() that returned; a payload that does not exist or has no callable
\* execute gives 1 and no call of execute().
ZeroOnlyAfterExecute ==
    /\ cli_result.rc = 0 =>
          (Len(ExecuteCalls) = 1 /\ cli_payload = "valid" /\ cli_execute = "returns"
             /\ cli_result.raised = "none")
    /\ (cli_payload = "valid" /\ cli_execute = "returns") => Returned(0)
    /\ cli_payload \in {"missing", "no_execute", "execute_not_callable"} =>
          (Returned(1) /\ ExecuteCalls = <<>>)
    /\ Len(ExecuteCalls) <= 1

\* C33 as stated: with the two parts above, whatever execute() raises makes
\* the command return 1 when stack_trace_errors is off and leaves the
\* command as it is when stack_trace_errors is on.
C33_ExecuteFailureReturnsOne ==
    /\ ZeroOnlyAfterExecute
    /\ (cli_payload = "valid" /\ cli_execute # "returns") =>
          IF cli_result.stack_trace THEN Propagated(cli_execute) ELSE Returned(1)

\* C33: with the two parts above, an Exception raised by execute() makes
\* the command return 1 when stack_trace_errors is off and propagates when
\* it is on; a KeyboardInterrupt or SystemExit propagates whatever the flag,
\* and a PayloadNotFoundError raised by execute() gives 1 whatever the flag.
C33_ExecuteExceptionReturnsOne ==
    /\ ZeroOnlyAfterExecute
    /\ (cli_payload = "valid" /\ cli_execute = "Exception") =>
          IF cli_result.stack_trace THEN Propagated("Exception") ELSE Returned(1)
    /\ (cli_payload = "valid" /\ cli_execute = "KeyboardInterrupt") =>
          Propagated("KeyboardInterrupt")
    /\ (cli_payload = "valid" /\ cli_execute = "PayloadNotFoundError") => Returned(1)

\* execute() was called once and raised KeyboardInterrupt with
\* stack_trace_errors off: the command did not return.
C33_Witness ==
    /\ cli_payload = "valid"
    /\ cli_execute = "KeyboardInterrupt"
    /\ ~cli_result.stack_trace
    /\ Len(ExecuteCalls) = 1
    /\ Propagated("KeyboardInterrupt")

\* execute() raised an Exception with stack_trace_errors off: 1.
ExceptionGivesOne ==
    /\ cli_payload = "valid"
    /\ cli_execute = "Exception"
    /\ ~cli_result.stack_trace
    /\ Returned(1)
    /\ cli_calls[Len(cli_calls)] = <<"error", "Failed to run payload">>

\* ------------------------------------------------------ relay, once more

\* stdio() has ended with the exception of a setup step that follows the
\* opening of the connection.
SetupFailed == pc = "closed" /\ exc \in {"tcgetattr", "setcbreak", "signal"}

\* C34: when a setup step after the opening of the connection raises, the
\* session is torn down before stdio() raises: a connection stdio() opened
\* has been closed and the terminal has the mode it had at entry.
C34_SetupFailureTornDown ==
    SetupFailed =>
        /\ created_ser => (ser_state = "closed" /\ ser_close_calls # <<>>)
        /\ manage_tty => tty_attrs = tty_at_entry

\* What the code does instead: nothing of the finally block runs, so the
\* connection stdio() opened stays open and a terminal already in cbreak
\* stays in cbreak.
SetupFailureLeaks ==
    SetupFailed =>
        /\ ser_close_calls = <<>>
        /\ tcsetattr_calls = <<>>
        /\ created_ser => ser_state = "open"
        /\ (exc = "signal" /\ manage_tty) => tty_attrs = "cbreak"

\* The last serial read.
LastRead == ser_reads[Len(ser_reads)]

\* The marker occurs in b and ends within the last n bytes of b.
EndsWithin(b, n) ==
    \E i \in 0..(Len(b) - Len(DONE_MARKER)) :
        /\ i + Len(DONE_MARKER) > Len(b) - n
        /\ \A j \in 1..Len(DONE_MARKER) : b[i + j] = DONE_MARKER[j]

\* The last read holds the marker or completes it.
MarkerInLastRead == EndsWithin(Flatten(ser_reads), Len(LastRead))

\* C35 as stated: at the marker check after a read that holds or completes
\* the marker the loop goes on to write CRLF and break, however many bytes
\* follow the marker in that read.
C35_MarkerAnywhereInRead ==
    [][ (pc = "marker_check" /\ MarkerInLastRead) => pc' = "crlf" ]_vars

\* C35, amended: the marker check ends the loop exactly when the marker
\* occurs in the last len(DONE_MARKER) + 1024 bytes received, so a read that
\* holds or completes the marker ends the session if at most 1024 bytes
\* follow the marker in it.
C35_MarkerInTrailingWindow ==
    [][ pc = "marker_check" =>
          /\ pc' = "crlf" <=>
                Contains(LastBytes(Flatten(ser_reads), Len(DONE_MARKER) + 1024),
                         DONE_MARKER)
          /\ (\E n \in 0..1024 : LastRead = MarkerThen(n)) => pc' = "crlf" ]_vars

\* C35 witness: the marker with 1024 bytes behind it in one read, after
\* b"hi\n": the loop is about to write CRLF and break.
C35_Witness ==
    /\ pc = "crlf"
    /\ ser_reads = <<Hi, MarkerThen(BufSlack)>>
    /\ Len(buf) = max_buf

\* The marker with 1025 bytes behind it in one read is not seen: the loop
\* waits again.
MarkerCutAway ==
    /\ pc = "select"
    /\ ser_reads = <<MarkerThen(BufSlack + 1)>>
    /\ in_reads = <<>>
    /\ exit = "none"

\* select returned both sources in the current wake-up.
BothReady == r = {"in", "ser"}

\* A step of the loop that stays in the loop and moves on.
LoopStep == exit' = "none" /\ pc' # pc /\ InLoop /\ pc' \in
    {"select", "ser_read", "ready", "extend", "os_write", "marker_check",
     "crlf", "in_read", "dispatch"}

\* C36: in a wake-up with both sources ready the serial read comes first;
\* local input is read only when the serial side is done (an empty read, or
\* a marker check that found nothing); a marker check that finds the marker
\* goes to the CRLF write and from there out of the loop, and neither step
\* reads local input; and the loop waits again only after local input has
\* been read and dispatched.
C36_SerialBeforeLocal ==
    [][ /\ (pc = "select" /\ LoopStep /\ r' = {"in", "ser"}) => pc' = "ser_read"
        /\ (r' = {"in", "ser"} /\ LoopStep /\ pc' = "in_read") =>
              \/ pc = "ser_read" /\ ser_reads' = Append(ser_reads, <<>>)
              \/ pc = "marker_check" /\ ~MarkerSeen(buf)
        /\ (BothReady /\ pc = "marker_check" /\ MarkerSeen(buf) /\ pc' # pc) =>
              (pc' \in {"crlf", "finally_tty"} /\ in_reads' = in_reads)
        /\ (BothReady /\ pc = "crlf" /\ pc' # pc) =>
              (pc' = "finally_tty" /\ in_reads' = in_reads)
        /\ (BothReady /\ pc = "marker_check" /\ ~MarkerSeen(buf) /\ LoopStep) =>
              pc' = "in_read"
        /\ (BothReady /\ pc = "in_read" /\ LoopStep) =>
              (pc' = "dispatch" /\ Len(in_reads') = Len(in_reads) + 1)
        /\ (BothReady /\ LoopStep /\ pc' = "select") => pc = "dispatch" ]_vars

\* C36 witness: both sources were ready, the serial read brought the marker
\* and the session ended on it without a local read.
C36_Witness ==
    /\ pc = "closed" /\ exit = "marker" /\ BothReady
    /\ ser_reads = <<DONE_MARKER>> /\ in_reads = <<>>

\* Both sources were ready, the serial read brought ordinary bytes and the
\* local read was forwarded in the same wake-up: the loop waits again.
BothHandled ==
    /\ pc = "select" /\ exit = "none" /\ BothReady
    /\ ser_reads = <<Hi>> /\ in_reads = <<Ls>>
    /\ os_write_calls = <<<<"data", Hi>>>>
    /\ ser_write_calls = <<<<"loop", Ls>>>>

\* C37: with a ready callback, the callback has been called by the time the
\* first serial bytes are buffered, written to local output or checked for
\* the marker: whenever anything was written to local output, whenever the
\* loop is between the callback and the end of the serial side, and whenever
\* the session ended on the marker, the callback has been called, once; and
\* right after the call for the first bytes nothing has been written yet.
C37_ReadyBeforeWriteAndCheck ==
    on_ready # "None" =>
        /\ os_write_calls # <<>> => on_ready_calls = 1
        /\ pc \in {"extend", "os_write", "marker_check", "crlf"} => on_ready_calls = 1
        /\ exit = "marker" => on_ready_calls = 1
        /\ (pc = "extend" /\ NonEmptyReads = 1) => os_write_calls = <<>>
        /\ (exc = "on_ready" /\ NonEmptyReads = 1) => os_write_calls = <<>>

\* C37 witness: the very first serial read is the marker; the callback was
\* called, then the read was written, then CRLF, and the session ended on the
\* marker.
C37_Witness ==
    /\ pc = "closed" /\ exit = "marker" /\ on_ready = "returns"
    /\ ser_reads = <<DONE_MARKER>>
    /\ on_ready_calls = 1
    /\ Payloads(os_write_calls) = <<DONE_MARKER, CRLF>>

\* The device was opened at event i.
OpenedAt(i) == kb_events[i] = <<"open", <<>>>>

\* A frame was written at event i.
WrittenAt(i) == i \in 1..Len(kb_events) /\ kb_events[i][1] = "write"

\* An 8-byte frame whose byte 1 is 0x00 and whose keycodes fill bytes 2..7
\* from the left: no empty slot to the left of a filled one.
WellFormedReport(rep) ==
    /\ Len(rep) = 8
    /\ \A j \in 1..8 : rep[j] \in 0..255
    /\ rep[2] = 0
    /\ Cardinality({ j \in 3..8 : rep[j] # 0 }) <= 6
    /\ \A j \in 3..7 : rep[j] = 0 => rep[j + 1] = 0

\* C38: every open of the device is followed at once by two writes and no
\* third: a well-formed report (8 bytes, byte 1 zero, at most 6 keycodes
\* contiguous from byte 2) and the 8-byte all-zero frame; and nothing is
\* written to the device outside such an open.
C38_ReportShapeAndRelease ==
    /\ \A i \in 1..Len(kb_events) :
          OpenedAt(i) =>
              /\ WrittenAt(i + 1) /\ WrittenAt(i + 2) /\ ~WrittenAt(i + 3)
              /\ WellFormedReport(kb_events[i + 1][2])
              /\ kb_events[i + 2][2] = ZeroFrame
              /\ ZeroFrame = <<0, 0, 0, 0, 0, 0, 0, 0>>
    /\ \A i \in 1..Len(kb_events) :
          WrittenAt(i) => \/ (i > 1 /\ OpenedAt(i - 1))
                          \/ (i > 2 /\ OpenedAt(i - 2))

\* C38 witness: {KEY:a+a+WIN+a+a+a+a}, seven keys of which the third has no
\* keycode: the report carries the modifier and six keycodes, and the release
\* frame follows it.
C38_Witness ==
    /\ kb_pc = "done"
    /\ keystrokes = <<JoinKeys(<<KeyA, KeyA, KeyWin, KeyA, KeyA, KeyA, KeyA>>)>>
    /\ SelectSeq(kb_events, LAMBDA e : e[1] # "log") =
          << <<"open", <<>>>>, <<"write", <<8, 0, 4, 4, 4, 4, 4, 4>>>>,
             <<"write", ZeroFrame>>, <<"sleep", delay>> >>

\* Token i of the text is a character outside an escape.
PlainAt(i) == i \in 1..Len(tokens) /\ Len(tokens[i]) = 1

\* The group of the plain character at i lists that character as its single
\* key; when the character is in the keymap the report built for the group
\* is the report of that key alone, and a call that fails at the group does
\* not fail for an unknown key.
OneKeyAt(i) ==
    /\ keystrokes[i] = tokens[i]
    /\ KeysOf(keystrokes[i]) = <<tokens[i]>>
    /\ tokens[i] \in DOMAIN keymap =>
          /\ Encode(keystrokes[i], keymap).error = NoError
          /\ ReportOf(i) = SingleKeyReport(tokens[i])
          /\ (kb_pc = "failed" /\ FailedAt = i) => kb_error.kind # "KeymapError"

\* C39: every character of the text outside an escape forms a group whose
\* single key name is that character, "+" included: a plain "+" of the
\* keymap gives the report of its entry and is not split into empty names.
C39_PlainCharIsOneKey ==
    kb_pc # "idle" => \A i \in 1..Len(tokens) : PlainAt(i) => OneKeyAt(i)

\* Every plain character but "+" is the single key of its group.
PlainCharButPlusIsOneKey ==
    kb_pc # "idle" =>
        \A i \in 1..Len(tokens) : (PlainAt(i) /\ tokens[i] # KeyPlus) => OneKeyAt(i)

\* send("a+") on a keymap that has "+": a is delivered, then the call fails
\* for the unknown key '' of the group "+".
PlusSplitIntoEmptyNames ==
    /\ kb_pc = "failed" /\ tokens = <<KeyA, KeyPlus>> /\ KeyPlus \in DOMAIN keymap
    /\ KeysOf(keystrokes[2]) = <<<<>>, <<>>>>
    /\ kb_error = UnknownKey(<<>>)

\* What the call has logged and slept, in order: the opens and the writes of
\* the device left out.
LogsAndSleeps == SelectSeq(kb_events, LAMBDA e : e[1] \in {"log", "sleep"})

\* Every group of the text encoded: its report, or the error of the group.
EncodedGroups == [i \in 1..Len(keystrokes) |-> Encode(keystrokes[i], keymap)]

\* The log event of group i of the encoded groups, if the Keyboard logs.
LogOf(enc, i) == IF log_keystrokes THEN << <<"log", enc[i].report>> >> ELSE <<>>

RECURSIVE DryRun(_, _)
\* Groups 1..n gone through without the device: message and delay of each.
DryRun(enc, n) ==
    IF n = 0 THEN <<>>
    ELSE DryRun(enc, n - 1) \o LogOf(enc, n) \o << <<"sleep", delay>> >>

\* The first group among the encoded groups whose report cannot be built, 0
\* if every report can.
FirstBad(enc) ==
    LET bad == { i \in DOMAIN enc : enc[i].error # NoError }
    IN IF bad = {} THEN 0 ELSE CHOOSE i \in bad : \A h \in bad : i <= h

\* C40: whatever the disable flag, a send() whose device does not fail forms
\* the groups of the text, and at every moment its messages, its delays, its
\* counter and its error are those of the groups gone through so far, given
\* by the text, the keymap, the logging flag and the speed alone; it stops
\* at the first group whose report cannot be built, with that group's error.
\* The flag decides the device only: a disabled keyboard never opens, never
\* writes and never has a device error, an enabled one writes two frames for
\* every report built.
C40_DisableChangesOnlyWrites ==
    kb_pc # "idle" =>
        LET enc == EncodedGroups
            fb == FirstBad(enc)
            lines == Len(kb_log_calls)
        IN
        /\ keystrokes = GroupsOf(tokens)
        /\ ~DeviceFailed =>
              /\ LogsAndSleeps =
                    CASE kb_pc = "process" -> DryRun(enc, kb_i)
                      [] kb_pc = "sleep" -> DryRun(enc, kb_i) \o LogOf(enc, kb_i + 1)
                      [] kb_pc = "failed" -> DryRun(enc, kb_i)
                      [] kb_pc = "done" -> DryRun(enc, Len(keystrokes))
              /\ keystroke_count = started_before + StartedInCall
              /\ lines = Len(SelectSeq(kb_events, LAMBDA e : e[1] = "log"))
              /\ lines > 0 => IsLogLine(kb_log_calls[lines], lines, started_before + lines)
              /\ fb # 0 => kb_i < fb
              /\ kb_pc = "failed" <=> (fb # 0 /\ kb_i + 1 = fb /\ kb_pc # "process")
              /\ kb_pc = "failed" => kb_error = enc[fb].error
              /\ kb_pc # "failed" => kb_error = NoError
        /\ disable_keyboard =>
              /\ ~DeviceFailed
              /\ \A i \in 1..Len(kb_events) : kb_events[i][1] \in {"log", "sleep"}
        /\ (~disable_keyboard /\ ~DeviceFailed) => Len(HidWrites) = 2 * ReportsBuilt

\* send("a{KEY:WIN+r}{KEY:a+a+a+a+a+a+a}") with logging on has gone through
\* two groups and failed at the third with a report overflow.
OverflowAfterTwo ==
    /\ kb_pc = "failed" /\ log_keystrokes
    /\ tokens = <<KeyA, Escape(KeyWin \o <<"+">> \o KeyR), Escape(SevenKeys)>>
    /\ kb_error.kind = "HIDReportError"
    /\ keystroke_count = 3
    /\ Len(kb_log_calls) = 2
    /\ LogsAndSleeps = << <<"log", <<0, 0, 4, 0, 0, 0, 0, 0>> >>, <<"sleep", delay>>,
                          <<"log", <<8, 0, 21, 0, 0, 0, 0, 0>> >>, <<"sleep", delay>> >>

\* C40 witness: that call on a disabled keyboard: nothing but messages and
\* delays.
C40_Witness == OverflowAfterTwo /\ disable_keyboard /\ kb_events = LogsAndSleeps

\* The same call on an enabled keyboard: the same messages, delays, counter
\* and error, and four frames written.
EnabledTwin == OverflowAfterTwo /\ ~disable_keyboard /\ Len(HidWrites) = 4

====
